---- MODULE Spec2Model ----
(***************************************************************************)
(* Model of the transcript gateway: the language matcher                   *)
(* (services/language-handler.js), the strategy selector and the unified   *)
(* extractor with its fallback loop (services/strategy-selector.js and     *)
(* services/unified-extractor.js, both carried in docs/error-codes.md) and *)
(* the GET /transcript handler (index.js), with the error response of      *)
(* services/response-formatter.js.  A single extractTranscript call is also *)
(* modelled await by await, with the library calls it issues and the        *)
(* temporary directories it creates, and so are concurrent calls of         *)
(* VideoMetadataExtractor._getInfoRobust (services/metadata-extractor.js).  *)
(*                                                                         *)
(* Strings that the code inspects character by character (language codes,  *)
(* URLs) are sequences of one-character strings.  Messages are sequences of      *)
(* string tokens.  Confidences are kept in hundredths (1.0 is 100).          *)
(* A transcript text is represented by its length in characters; the field *)
(* encoding of a backend result tells how that text is encoded.            *)
(***************************************************************************)
EXTENDS Integers, Sequences, FiniteSets, TLC

VARIABLES
  pc,          \* position of the GET /transcript handler
  query,       \* req.query of the request being served
  openai,      \* UnifiedTranscriptExtractor.openai is set (API key present)
  metadata,    \* metadata of the handler
  strategies,  \* strategies of the handler / methods of extractWithFallback
  config,      \* config handed to extractWithFallback
  idx,         \* loop index i of extractWithFallback (0-based, as in the code)
  errors,      \* errors array of extractWithFallback
  calls,       \* history: the methods extractTranscript was invoked with
  outcomes,    \* history: the result each extractTranscript call returned
  result,      \* value returned by extractWithFallback
  response,    \* what the handler sends: HTTP status and, on failure, the code
  args,        \* arguments of a direct call of a service method
  ret,         \* value the direct call returned
  called,      \* name of the service method that was called directly
  step,        \* position inside a backend of a direct extractTranscript call
  trace,       \* history: the external library calls that backend has made
  tmpDirs,     \* the temporary directories that exist
  locals,      \* local variables of that backend
  ytdl,        \* the ytdl module: its default player client
  fetches      \* the _getInfoRobust calls in progress, one per request

vars == <<pc, query, openai, metadata, strategies, config, idx, errors,
          calls, outcomes, result, response, args, ret, called,
          step, trace, tmpDirs, locals, ytdl, fetches>>

flowVars == <<pc, query, openai, metadata, strategies, config, idx, errors,
              calls, outcomes, result, response>>

callVars == <<args, ret, called>>

backendVars == <<step, trace, tmpDirs, locals>>

clientVars == <<ytdl, fetches>>

----------------------------------------------------------------------------
(* Bounds *)

MaxAvailable == 2

MaxLanguageAttempts == 2

Min(a, b) == IF a < b THEN a ELSE b

\* the element of a one-element set: { e(x) : x \in {v} } computes v once,
\* as a JavaScript const does, however often e uses x
TheOnly(S) == CHOOSE v \in S : TRUE

----------------------------------------------------------------------------
(* JavaScript string primitives over character sequences *)

UpperCaseChars ==
  <<"A","B","C","D","E","F","G","H","I","J","K","L","M",
    "N","O","P","Q","R","S","T","U","V","W","X","Y","Z">>

LowerCaseChars ==
  <<"a","b","c","d","e","f","g","h","i","j","k","l","m",
    "n","o","p","q","r","s","t","u","v","w","x","y","z">>

ToLowerChar(c) ==
  IF \E i \in 1..26 : UpperCaseChars[i] = c
  THEN LowerCaseChars[CHOOSE i \in 1..26 : UpperCaseChars[i] = c]
  ELSE c

toLowerCase(s) == [i \in 1..Len(s) |-> ToLowerChar(s[i])]

RECURSIVE TrimStart(_)
TrimStart(s) ==
  IF s # <<>> /\ Head(s) = " " THEN TrimStart(Tail(s)) ELSE s

RECURSIVE TrimEnd(_)
TrimEnd(s) ==
  IF s # <<>> /\ s[Len(s)] = " " THEN TrimEnd(SubSeq(s, 1, Len(s) - 1)) ELSE s

trim(s) == TrimEnd(TrimStart(s))

\* s.split('-')[0]
SplitDashFirst(s) ==
  IF \E i \in 1..Len(s) : s[i] = "-"
  THEN SubSeq(s, 1, (CHOOSE i \in 1..Len(s) :
                       s[i] = "-" /\ \A j \in 1..(i - 1) : s[j] # "-") - 1)
  ELSE s

startsWith(s, prefix) ==
  Len(prefix) <= Len(s) /\ SubSeq(s, 1, Len(prefix)) = prefix

\* array.includes(x)
includes(array, x) == \E i \in 1..Len(array) : array[i] = x

\* array.find(predicate): the index of the element it returns, 0 when it
\* returns undefined; tests[i] is the value of the predicate on array[i]
FindIndex(tests) ==
  IF \E i \in 1..Len(tests) : tests[i]
  THEN CHOOSE i \in 1..Len(tests) :
         tests[i] /\ \A j \in 1..(i - 1) : ~tests[j]
  ELSE 0

----------------------------------------------------------------------------
(* services/language-handler.js *)

LANGUAGE_MAPPINGS ==
  <<
      [key |-> <<"e","n">>, variants |-> <<<<"e","n">>, <<"e","n","-","U","S">>, <<"e","n","-","G","B">>, <<"e","n","-","C","A">>, <<"e","n","-","A","U">>>>],
      [key |-> <<"e","n","-","U","S">>, variants |-> <<<<"e","n","-","U","S">>, <<"e","n">>>>],
      [key |-> <<"e","n","-","G","B">>, variants |-> <<<<"e","n","-","G","B">>, <<"e","n">>>>],
      [key |-> <<"e","s">>, variants |-> <<<<"e","s">>, <<"e","s","-","E","S">>, <<"e","s","-","M","X">>, <<"e","s","-","A","R">>>>],
      [key |-> <<"e","s","-","E","S">>, variants |-> <<<<"e","s","-","E","S">>, <<"e","s">>>>],
      [key |-> <<"e","s","-","M","X">>, variants |-> <<<<"e","s","-","M","X">>, <<"e","s">>>>],
      [key |-> <<"f","r">>, variants |-> <<<<"f","r">>, <<"f","r","-","F","R">>, <<"f","r","-","C","A">>>>],
      [key |-> <<"f","r","-","F","R">>, variants |-> <<<<"f","r","-","F","R">>, <<"f","r">>>>],
      [key |-> <<"f","r","-","C","A">>, variants |-> <<<<"f","r","-","C","A">>, <<"f","r">>>>],
      [key |-> <<"d","e">>, variants |-> <<<<"d","e">>, <<"d","e","-","D","E">>, <<"d","e","-","A","T">>, <<"d","e","-","C","H">>>>],
      [key |-> <<"d","e","-","D","E">>, variants |-> <<<<"d","e","-","D","E">>, <<"d","e">>>>],
      [key |-> <<"p","t">>, variants |-> <<<<"p","t">>, <<"p","t","-","B","R">>, <<"p","t","-","P","T">>>>],
      [key |-> <<"p","t","-","B","R">>, variants |-> <<<<"p","t","-","B","R">>, <<"p","t">>>>],
      [key |-> <<"p","t","-","P","T">>, variants |-> <<<<"p","t","-","P","T">>, <<"p","t">>>>],
      [key |-> <<"i","t">>, variants |-> <<<<"i","t">>, <<"i","t","-","I","T">>>>],
      [key |-> <<"j","a">>, variants |-> <<<<"j","a">>, <<"j","a","-","J","P">>>>],
      [key |-> <<"k","o">>, variants |-> <<<<"k","o">>, <<"k","o","-","K","R">>>>],
      [key |-> <<"z","h">>, variants |-> <<<<"z","h">>, <<"z","h","-","C","N">>, <<"z","h","-","T","W">>, <<"z","h","-","H","K">>>>],
      [key |-> <<"z","h","-","C","N">>, variants |-> <<<<"z","h","-","C","N">>, <<"z","h">>>>],
      [key |-> <<"z","h","-","T","W">>, variants |-> <<<<"z","h","-","T","W">>, <<"z","h">>>>],
      [key |-> <<"r","u">>, variants |-> <<<<"r","u">>, <<"r","u","-","R","U">>>>],
      [key |-> <<"a","r">>, variants |-> <<<<"a","r">>, <<"a","r","-","S","A">>, <<"a","r","-","E","G">>>>],
      [key |-> <<"h","i">>, variants |-> <<<<"h","i">>, <<"h","i","-","I","N">>>>],
      [key |-> <<"n","l">>, variants |-> <<<<"n","l">>, <<"n","l","-","N","L">>>>],
      [key |-> <<"s","v">>, variants |-> <<<<"s","v">>, <<"s","v","-","S","E">>>>],
      [key |-> <<"n","o">>, variants |-> <<<<"n","o">>, <<"n","b">>, <<"n","n">>>>],
      [key |-> <<"d","a">>, variants |-> <<<<"d","a">>, <<"d","a","-","D","K">>>>],
      [key |-> <<"f","i">>, variants |-> <<<<"f","i">>, <<"f","i","-","F","I">>>>],
      [key |-> <<"p","l">>, variants |-> <<<<"p","l">>, <<"p","l","-","P","L">>>>],
      [key |-> <<"t","r">>, variants |-> <<<<"t","r">>, <<"t","r","-","T","R">>>>],
      [key |-> <<"h","e">>, variants |-> <<<<"h","e">>, <<"i","w">>>>],
      [key |-> <<"t","h">>, variants |-> <<<<"t","h">>, <<"t","h","-","T","H">>>>],
      [key |-> <<"v","i">>, variants |-> <<<<"v","i">>, <<"v","i","-","V","N">>>>],
      [key |-> <<"i","d">>, variants |-> <<<<"i","d">>, <<"i","d","-","I","D">>>>],
      [key |-> <<"m","s">>, variants |-> <<<<"m","s">>, <<"m","s","-","M","Y">>>>]
  >>

LANGUAGE_PRIORITY ==
  <<<<"e","n">>, <<"e","s">>, <<"f","r">>, <<"d","e">>, <<"p","t">>, <<"i","t">>,
    <<"j","a">>, <<"k","o">>, <<"z","h">>, <<"r","u">>, <<"a","r">>, <<"h","i">>>>

supportedLanguages == { LANGUAGE_MAPPINGS[i].key : i \in 1..Len(LANGUAGE_MAPPINGS) }

normalizeLanguageCode(languageCode) ==
  IF languageCode = <<>>
  THEN <<"e","n">>
  ELSE TheOnly({
         LET baseLang == SplitDashFirst(normalized)
             hit == FindIndex([i \in 1..Len(LANGUAGE_MAPPINGS) |->
                                 includes(LANGUAGE_MAPPINGS[i].variants, normalized)])
         IN  IF normalized \in supportedLanguages THEN normalized
             ELSE IF baseLang \in supportedLanguages THEN baseLang
             ELSE IF hit # 0 THEN LANGUAGE_MAPPINGS[hit].key
             ELSE <<"e","n">>
         : normalized \in {trim(toLowerCase(languageCode))} })

\* an array argument that may be absent: Array(items) or NoArray
Array(items) == [present |-> TRUE, items |-> items]

NoArray == [present |-> FALSE, items |-> <<>>]

\* result of findBestLanguageMatch
MatchResult(selected, kind, hundredths, alternatives) ==
  [selectedLanguage |-> selected, matchType |-> kind,
   confidence |-> hundredths, availableAlternatives |-> alternatives]

\* rule 3: the loop over LANGUAGE_PRIORITY, from position p on; 0 when no
\* priority language has a truthy match
RECURSIVE PriorityMatchIndex(_, _)
PriorityMatchIndex(available, p) ==
  IF p > Len(LANGUAGE_PRIORITY) THEN 0
  ELSE LET priorityMatch ==
             FindIndex([i \in 1..Len(available) |->
                          normalizeLanguageCode(available[i]) = LANGUAGE_PRIORITY[p]])
       IN  IF priorityMatch # 0 /\ available[priorityMatch] # <<>>
           THEN priorityMatch
           ELSE PriorityMatchIndex(available, p + 1)

\* the result when no language is available
NoneResult_Normalized(preferredLanguage) ==
  MatchResult(normalizeLanguageCode(preferredLanguage), "none", 0, <<>>)

NoneResult(preferredLanguage) ==
  MatchResult(preferredLanguage, "none", 0, <<>>)

\* rule 1: the predicate of the find for the exact match
IsExactMatch_Raw(lang, normalizedPreferred) ==
  lang = normalizedPreferred

IsExactMatch(lang, normalizedPreferred) ==
  normalizeLanguageCode(lang) = normalizedPreferred

findBestLanguageMatch(availableLanguages, preferredLanguage) ==
  IF ~availableLanguages.present \/ Len(availableLanguages.items) = 0
  THEN NoneResult(preferredLanguage)
  ELSE TheOnly({
    LET exactMatch ==
          FindIndex([i \in 1..Len(available) |->
                       IsExactMatch(available[i], normalizedPreferred)])
        IsFamily(lang) ==
          LET normalized == normalizeLanguageCode(lang)
              baseLang == SplitDashFirst(normalizedPreferred)
          IN  startsWith(normalized, baseLang) \/ normalized = baseLang
        familyMatch ==
          FindIndex([i \in 1..Len(available) |-> IsFamily(available[i])])
        priorityMatch == PriorityMatchIndex(available, 1)
        Others(k) == LET Differs(lang) == lang # available[k]
                     IN  SelectSeq(available, Differs)
    IN  IF exactMatch # 0 /\ available[exactMatch] # <<>>
        THEN MatchResult(available[exactMatch], "exact", 100, Others(exactMatch))
        ELSE IF familyMatch # 0 /\ available[familyMatch] # <<>>
        THEN MatchResult(available[familyMatch], "family", 80, Others(familyMatch))
        ELSE IF priorityMatch # 0
        THEN MatchResult(available[priorityMatch], "priority_fallback", 60,
                         Others(priorityMatch))
        ELSE MatchResult(available[1], "first_available", 30, Tail(available))
    : available \in {availableLanguages.items},
      normalizedPreferred \in {normalizeLanguageCode(preferredLanguage)} })

----------------------------------------------------------------------------
(* types/interfaces.js *)

DEFAULT_PREFERENCES ==
  [preferredLanguage |-> <<"e","n">>, format |-> "txt", fallbackToAudio |-> TRUE]

----------------------------------------------------------------------------
(* services/strategy-selector.js *)

YOUTUBE_TRANSCRIPT == "youtube-transcript"

YOUTUBE_CAPTION_EXTRACTOR == "youtube-caption-extractor"

WHISPER_AUDIO == "whisper-audio"

\* { ...DEFAULT_PREFERENCES, ...preferences }: a key of preferences wins
MergePreferences(preferences) ==
  [k \in DOMAIN DEFAULT_PREFERENCES |->
     IF k \in DOMAIN preferences THEN preferences[k] ELSE DEFAULT_PREFERENCES[k]]

\* a boolean property that may be missing from the object (undefined is falsy)
Flag(object, field) == field \in DOMAIN object /\ object[field]

_isVideoSuitableForExtraction_IgnoresLive(md) ==
  IF Flag(md, "isUpcoming") THEN FALSE
  ELSE IF "duration" \in DOMAIN md /\ md.duration > 0 /\ md.duration < 10 THEN FALSE
  ELSE TRUE

_isVideoSuitableForExtraction(md) ==
  IF Flag(md, "isLive") THEN FALSE
  ELSE IF Flag(md, "isUpcoming") THEN FALSE
  ELSE IF "duration" \in DOMAIN md /\ md.duration > 0 /\ md.duration < 10 THEN FALSE
  ELSE TRUE

_hasPreferredLanguage(availableLanguages, preferredLanguage) ==
  IF Len(availableLanguages) = 0 THEN FALSE
  ELSE IF includes(availableLanguages, preferredLanguage) THEN TRUE
  ELSE LET langPrefix == SplitDashFirst(preferredLanguage)
       IN  \E i \in 1..Len(availableLanguages) :
             startsWith(availableLanguages[i], langPrefix)

\* [...new Set(strategies)]: duplicates removed, first occurrence kept
RECURSIVE Unique(_)
Unique(list) ==
  IF list = <<>> THEN <<>>
  ELSE TheOnly({ IF includes(init, last) THEN init ELSE Append(init, last)
                 : init \in {Unique(SubSeq(list, 1, Len(list) - 1))},
                   last \in {list[Len(list)]} })

\* the caption methods selectStrategy pushes
CaptionStrategies_PreferredOnly(md, prefs) ==
  IF md.hasClosedCaptions
  THEN IF _hasPreferredLanguage(md.availableLanguages, prefs.preferredLanguage)
       THEN <<YOUTUBE_TRANSCRIPT, YOUTUBE_CAPTION_EXTRACTOR>>
       ELSE <<>>
  ELSE <<>>

CaptionStrategies(md, prefs) ==
  IF md.hasClosedCaptions
  THEN IF _hasPreferredLanguage(md.availableLanguages, prefs.preferredLanguage)
       THEN <<YOUTUBE_TRANSCRIPT, YOUTUBE_CAPTION_EXTRACTOR>>
       ELSE <<YOUTUBE_TRANSCRIPT, YOUTUBE_CAPTION_EXTRACTOR>>
  ELSE <<>>

selectStrategy(md, preferences) ==
  LET prefs == MergePreferences(preferences)
      captionMethods == CaptionStrategies(md, prefs)
      audioMethods == IF prefs.fallbackToAudio THEN <<WHISPER_AUDIO>> ELSE <<>>
  IN  IF ~_isVideoSuitableForExtraction(md)
      THEN IF prefs.fallbackToAudio THEN <<WHISPER_AUDIO>> ELSE <<>>
      ELSE Unique(captionMethods \o audioMethods)

----------------------------------------------------------------------------
(* services/language-handler.js: configuration *)

\* LANGUAGE_MAPPINGS[code], <<>> when the table has no such key
MappingOf(code) ==
  LET hit == FindIndex([i \in 1..Len(LANGUAGE_MAPPINGS) |->
                          LANGUAGE_MAPPINGS[i].key = code])
  IN  IF hit = 0 THEN <<>> ELSE LANGUAGE_MAPPINGS[hit].variants

getLanguageVariants(languageCode) ==
  TheOnly({
    LET own == IF MappingOf(normalized) # <<>> THEN MappingOf(normalized)
               ELSE <<normalized>>
        baseLang == SplitDashFirst(normalized)
        variants == IF baseLang # normalized /\ MappingOf(baseLang) # <<>>
                    THEN own \o MappingOf(baseLang)
                    ELSE own
    IN  TheOnly({ Unique(list) : list \in {variants} })
    : normalized \in {normalizeLanguageCode(languageCode)} })

countryMappings ==
  <<
    [language |-> <<"e","n">>, country |-> "US"],
    [language |-> <<"e","n","-","U","S">>, country |-> "US"],
    [language |-> <<"e","n","-","G","B">>, country |-> "GB"],
    [language |-> <<"e","n","-","C","A">>, country |-> "CA"],
    [language |-> <<"e","n","-","A","U">>, country |-> "AU"],
    [language |-> <<"e","s">>, country |-> "ES"],
    [language |-> <<"e","s","-","M","X">>, country |-> "MX"],
    [language |-> <<"e","s","-","A","R">>, country |-> "AR"],
    [language |-> <<"f","r">>, country |-> "FR"],
    [language |-> <<"f","r","-","C","A">>, country |-> "CA"],
    [language |-> <<"d","e">>, country |-> "DE"],
    [language |-> <<"p","t">>, country |-> "BR"],
    [language |-> <<"p","t","-","B","R">>, country |-> "BR"],
    [language |-> <<"p","t","-","P","T">>, country |-> "PT"],
    [language |-> <<"i","t">>, country |-> "IT"],
    [language |-> <<"j","a">>, country |-> "JP"],
    [language |-> <<"k","o">>, country |-> "KR"],
    [language |-> <<"z","h">>, country |-> "CN"],
    [language |-> <<"z","h","-","C","N">>, country |-> "CN"],
    [language |-> <<"z","h","-","T","W">>, country |-> "TW"],
    [language |-> <<"r","u">>, country |-> "RU"]
  >>

_getCountryForLanguage(languageCode) ==
  LET hit == FindIndex([i \in 1..Len(countryMappings) |->
                          countryMappings[i].language = languageCode])
  IN  IF hit = 0 THEN "US" ELSE countryMappings[hit].country

\* variants.slice(0, 3)
Slice3(list) == SubSeq(list, 1, IF Len(list) < 3 THEN Len(list) ELSE 3)

createLanguageConfig(preferredLanguage, availableLanguages, extractionMethod) ==
  TheOnly({
  LET common == [primaryLanguage |-> matchResult.selectedLanguage,
                 fallbackLanguages |-> variants,
                 availableLanguages |-> availableLanguages,
                 matchConfidence |-> matchResult.confidence,
                 matchType |-> matchResult.matchType]
  IN  CASE extractionMethod = "youtube-transcript" ->
             common @@ [country |-> _getCountryForLanguage(matchResult.selectedLanguage),
                        retryLanguages |-> Slice3(variants)]
        [] extractionMethod = "youtube-caption-extractor" ->
             common @@ [langCode |-> matchResult.selectedLanguage]
        [] extractionMethod = "whisper-audio" ->
             common @@ [languageHint |-> normalizeLanguageCode(preferredLanguage)]
        [] OTHER -> common
  : matchResult \in {findBestLanguageMatch(Array(availableLanguages),
                                           preferredLanguage)},
    variants \in {getLanguageVariants(preferredLanguage)} })

----------------------------------------------------------------------------
(* services/strategy-selector.js: configuration *)

EmptyObject == [f \in {} |-> FALSE]

\* the properties of object named in fields that object has
Pick(object, fields) == [f \in (fields \cap DOMAIN object) |-> object[f]]

\* method is "undefined" when the caller passes strategies[0] of an empty list
getMethodConfig(method, md, preferences) ==
  TheOnly({
  LET prefs == MergePreferences(preferences)
      baseConfig == [videoId |-> md.videoId,
                     language |-> languageConfig.primaryLanguage,
                     format |-> prefs.format,
                     languageConfig |-> languageConfig]
  IN  CASE method = YOUTUBE_TRANSCRIPT ->
             baseConfig @@ [country |-> languageConfig.country,
                            fallbackLanguages |-> languageConfig.fallbackLanguages]
        [] method = YOUTUBE_CAPTION_EXTRACTOR ->
             baseConfig @@ [availableLanguages |-> md.availableLanguages,
                            langCode |-> languageConfig.langCode]
        [] method = WHISPER_AUDIO ->
             baseConfig @@ Pick(md, {"title", "description", "duration"})
               @@ [model |-> "whisper-1",
                   response_format |-> IF prefs.format = "srt" THEN "srt"
                                       ELSE "verbose_json",
                   languageHint |-> languageConfig.languageHint]
               @@ (IF prefs.format = "json"
                   THEN [timestamp_granularities |-> <<"word">>]
                   ELSE EmptyObject)
        [] OTHER -> baseConfig
  : languageConfig \in {createLanguageConfig(
                          MergePreferences(preferences).preferredLanguage,
                          md.availableLanguages, method)} })

----------------------------------------------------------------------------
(* services/strategy-selector.js: time estimate, in hundredths of a second *)

\* metadata.duration || 300
DurationOr300(md) ==
  IF "duration" \in DOMAIN md /\ md.duration # 0 THEN md.duration ELSE 300

estimateExtractionTime_Unclamped(method, md) ==
  LET duration == DurationOr300(md)
  IN  CASE method = YOUTUBE_TRANSCRIPT -> duration * 2
        [] method = YOUTUBE_CAPTION_EXTRACTOR -> Min(1500, duration * 3)
        [] method = WHISPER_AUDIO -> Min(30000, 3000 + duration * 10)
        [] OTHER -> 6000

estimateExtractionTime(method, md) ==
  LET duration == DurationOr300(md)
  IN  CASE method = YOUTUBE_TRANSCRIPT -> Min(1000, duration * 2)
        [] method = YOUTUBE_CAPTION_EXTRACTOR -> Min(1500, duration * 3)
        [] method = WHISPER_AUDIO -> Min(30000, 3000 + duration * 10)
        [] OTHER -> 6000

----------------------------------------------------------------------------
(* services/unified-extractor.js: result formatting *)

DigitChars == <<"0","1","2","3","4","5","6","7","8","9">>

\* n.toString() for a non-negative integer
RECURSIVE toString(_)
toString(n) ==
  IF n < 10 THEN <<DigitChars[n + 1]>>
  ELSE toString(n \div 10) \o <<DigitChars[(n % 10) + 1]>>

RECURSIVE padStart(_, _, _)
padStart(s, width, fill) ==
  IF Len(s) >= width THEN s ELSE padStart(<<fill>> \o s, width, fill)

_formatSrtTime(milliseconds) ==
  LET totalSeconds == milliseconds \div 1000
      hours == totalSeconds \div 3600
      minutes == (totalSeconds % 3600) \div 60
      seconds == totalSeconds % 60
      ms == milliseconds % 1000
  IN  padStart(toString(hours), 2, "0") \o <<":">>
        \o padStart(toString(minutes), 2, "0") \o <<":">>
        \o padStart(toString(seconds), 2, "0") \o <<",">>
        \o padStart(toString(ms), 3, "0")

\* length of `${index + 1}\n${startTime} --> ${endTime}\n${segment.text}\n`
SrtBlockLength(segment, index) ==
  LET startTime == _formatSrtTime(segment.start)
      endTime == _formatSrtTime(segment.start + segment.duration)
  IN  Len(toString(index + 1)) + 1 + Len(startTime) + 5 + Len(endTime) + 1
        + segment.text + 1

\* length of pieces.join(separator) for pieces of the given lengths
RECURSIVE JoinLength(_, _)
JoinLength(lengths, separatorLength) ==
  IF lengths = <<>> THEN 0
  ELSE IF Len(lengths) = 1 THEN lengths[1]
  ELSE lengths[1] + separatorLength + JoinLength(Tail(lengths), separatorLength)

\* length of the text _formatAsSrt returns
_formatAsSrt(segments) ==
  JoinLength([i \in 1..Len(segments) |-> SrtBlockLength(segments[i], i - 1)], 1)

\* a text of n characters
Text(n) == [i \in 1..n |-> "x"]

\* `${index + 1}\n${startTime} --> ${endTime}\n${segment.text}\n`, with the
\* end time taken from the duration alone
SrtBlock_EndIsDuration(segment, index) ==
  toString(index + 1) \o <<"\n">>
    \o _formatSrtTime(segment.start) \o <<" ","-","-",">"," ">>
    \o _formatSrtTime(segment.duration) \o <<"\n">>
    \o Text(segment.text) \o <<"\n">>

\* `${index + 1}\n${startTime} --> ${endTime}\n${segment.text}\n`
SrtBlock(segment, index) ==
  toString(index + 1) \o <<"\n">>
    \o _formatSrtTime(segment.start) \o <<" ","-","-",">"," ">>
    \o _formatSrtTime(segment.start + segment.duration) \o <<"\n">>
    \o Text(segment.text) \o <<"\n">>

\* pieces.join(separator)
RECURSIVE Join(_, _)
Join(pieces, separator) ==
  IF pieces = <<>> THEN <<>>
  ELSE IF Len(pieces) = 1 THEN pieces[1]
  ELSE pieces[1] \o separator \o Join(Tail(pieces), separator)

\* the text _formatAsSrt returns
SrtText(segments) ==
  Join([i \in 1..Len(segments) |-> SrtBlock(segments[i], i - 1)], <<"\n">>)

\* item.offset || (parseFloat(item.start) * 1000) || 0, and the same for
\* duration: a missing or zero property is falsy
FirstTruthyTime(item, msField, secondsField) ==
  IF msField \in DOMAIN item /\ item[msField] # 0 THEN item[msField]
  ELSE IF secondsField \in DOMAIN item /\ item[secondsField] # 0
       THEN item[secondsField] * 1000
       ELSE 0

ToSegment(item) ==
  [text |-> item.text,
   start |-> FirstTruthyTime(item, "offset", "start"),
   duration |-> FirstTruthyTime(item, "duration", "dur")]

\* config.language || 'en'
LanguageOrEn(cfg) ==
  IF "language" \in DOMAIN cfg /\ cfg.language # <<>> THEN cfg.language
  ELSE <<"e","n">>

\* config.format || 'txt'
FormatOrTxt(cfg) ==
  IF "format" \in DOMAIN cfg /\ cfg.format # "" THEN cfg.format ELSE "txt"

\* the transcript field holds the length of the text and the encoding field
\* the branch that produced it (the json branch is outside the formats of
\* the model)
_formatTranscriptResult(rawTranscript, cfg, source) ==
  LET format == FormatOrTxt(cfg)
      segments == [i \in 1..Len(rawTranscript) |-> ToSegment(rawTranscript[i])]
      transcript ==
        IF format = "srt" THEN _formatAsSrt(segments)
        ELSE JoinLength([i \in 1..Len(segments) |-> segments[i].text], 1)
  IN  [transcript |-> transcript,
       encoding |-> IF format = "srt" THEN "srt" ELSE "txt",
       language |-> LanguageOrEn(cfg),
       confidence |-> 90,
       segments |-> segments,
       format |-> format,
       source |-> source]

----------------------------------------------------------------------------
(* services/unified-extractor.js: the three backends.  A reply is what the *)
(* external library calls of one backend invocation produce.               *)

Return(value) == [kind |-> "return", value |-> value]

Throw(message) == [kind |-> "throw", message |-> message]

\* reply.raw is the first non-empty transcript a fetch attempt produced,
\* <<>> when every attempt threw or came back empty
_extractWithYouTubeTranscript(cfg, reply) ==
  IF Len(reply.raw) > 0
  THEN Return(_formatTranscriptResult(reply.raw, cfg, "youtube-transcript"))
  ELSE Throw(<<"youtube-transcript: No transcript data available">>)

\* the languages _extractWithCaptionExtractor tries, in order
CaptionExtractorLanguages(cfg) ==
  IF "languageConfig" \in DOMAIN cfg
       /\ "fallbackLanguages" \in DOMAIN cfg.languageConfig
  THEN <<cfg.language>> \o cfg.languageConfig.fallbackLanguages
  ELSE <<cfg.language, <<"a","u","t","o","-","d","e","t","e","c","t","e","d">>>>

\* reply.attempt is the position of the first getSubtitles call that did not
\* throw (0 when all threw) and reply.raw what that call returned
_extractWithCaptionExtractor(cfg, reply) ==
  LET languages == CaptionExtractorLanguages(cfg)
  IN  IF reply.attempt = 0
      THEN IF "languageConfig" \in DOMAIN cfg
                /\ "fallbackLanguages" \in DOMAIN cfg.languageConfig
           THEN Throw(<<"youtube-caption-extractor: ", "No subtitles found">>)
           ELSE Throw(<<"youtube-caption-extractor: ", "getSubtitles failed">>)
      ELSE IF Len(reply.raw) = 0
      THEN Throw(<<"youtube-caption-extractor: ", "No subtitles found">>)
      ELSE Return([_formatTranscriptResult(reply.raw, cfg, "youtube-caption-extractor")
                     EXCEPT !.language = languages[reply.attempt]])

MinAudioBytes == 1000000

AudioTooSmall_Never(byteLength) == FALSE

\* !audioBuffer || audioBuffer.byteLength < 1000000
AudioTooSmall(byteLength) == byteLength < MinAudioBytes

\* reply.download is "throw" or "ok" with reply.byteLength the size of the
\* buffer; reply.whisper is "throw" or "ok" with reply.response the response
_extractWithWhisperAudio(cfg, reply, hasOpenai) ==
  IF ~hasOpenai
  THEN Throw(<<"OpenAI API key not configured for audio transcription">>)
  ELSE IF reply.download = "throw"
  THEN Throw(<<"No suitable audio format found">>)
  ELSE IF AudioTooSmall(reply.byteLength)
  THEN Throw(<<"Audio too small (">> \o <<ToString(reply.byteLength)>>
               \o <<" bytes) - likely not real content">>)
  ELSE IF reply.whisper = "throw"
  THEN Throw(<<"Whisper API error: ", "request failed">>)
  ELSE LET whisperResult == reply.response
           language ==
             IF "language" \in DOMAIN whisperResult /\ whisperResult.language # <<>>
             THEN whisperResult.language
             ELSE LanguageOrEn(cfg)
           segments ==
             IF "segments" \in DOMAIN whisperResult THEN whisperResult.segments
             ELSE <<>>
           transcript ==
             IF "text" \in DOMAIN whisperResult
             THEN [transcript |-> whisperResult.text, encoding |-> "txt"]
             ELSE EmptyObject
       IN  Return(transcript @@
                  [language |-> language,
                   confidence |-> 95,
                   segments |-> segments,
                   audioSizeBytes |-> reply.byteLength,
                   format |-> FormatOrTxt(cfg)])

----------------------------------------------------------------------------
(* services/unified-extractor.js: extractTranscript and extractWithFallback *)

\* the backend completion for method; elapsed times are not modelled
BackendCompletion(method, cfg, reply, hasOpenai) ==
  CASE method = YOUTUBE_TRANSCRIPT -> _extractWithYouTubeTranscript(cfg, reply)
    [] method = YOUTUBE_CAPTION_EXTRACTOR -> _extractWithCaptionExtractor(cfg, reply)
    [] method = WHISPER_AUDIO -> _extractWithWhisperAudio(cfg, reply, hasOpenai)
    [] OTHER -> Throw(<<"Unsupported extraction method: ", method>>)

extractTranscript_DropsMessage(method, cfg, reply, hasOpenai) ==
  LET completion == BackendCompletion(method, cfg, reply, hasOpenai)
  IN  IF completion.kind = "return"
      THEN [success |-> TRUE, method |-> method] @@ completion.value
      ELSE [success |-> FALSE,
            transcript |-> 0,
            format |-> FormatOrTxt(cfg),
            language |-> LanguageOrEn(cfg),
            method |-> method,
            error |-> <<>>]

extractTranscript(method, cfg, reply, hasOpenai) ==
  LET completion == BackendCompletion(method, cfg, reply, hasOpenai)
  IN  IF completion.kind = "return"
      THEN [success |-> TRUE, method |-> method] @@ completion.value
      ELSE [success |-> FALSE,
            transcript |-> 0,
            format |-> FormatOrTxt(cfg),
            language |-> LanguageOrEn(cfg),
            method |-> method,
            error |-> completion.message]

SufficiencyThreshold == 50

IsSufficient_Over500(res) ==
  res.success /\ "transcript" \in DOMAIN res /\ res.transcript > 500

IsSufficient_AtLeast(res) ==
  res.success /\ "transcript" \in DOMAIN res
    /\ res.transcript >= SufficiencyThreshold

\* result.success && result.transcript && result.transcript.length > 50
IsSufficient(res) ==
  res.success /\ "transcript" \in DOMAIN res
    /\ res.transcript > SufficiencyThreshold

\* result.transcript?.length || 0
TranscriptLength(res) ==
  IF "transcript" \in DOMAIN res THEN res.transcript ELSE 0

\* the entry pushed onto errors when extractTranscript returned res
InsufficientEntry(method, res) ==
  <<method, ": ", "Insufficient content (", ToString(TranscriptLength(res)),
    " chars)">>

\* errors.join('; ')
RECURSIVE JoinErrors(_)
JoinErrors(list) ==
  IF list = <<>> THEN <<>>
  ELSE IF Len(list) = 1 THEN list[1]
  ELSE list[1] \o <<"; ">> \o JoinErrors(Tail(list))

AllFailedResult_KeepsSuccess(errs, cfg) ==
  [success |-> TRUE,
   transcript |-> 0,
   format |-> FormatOrTxt(cfg),
   language |-> LanguageOrEn(cfg),
   method |-> "none",
   error |-> <<"All extraction methods failed. Errors: ">> \o JoinErrors(errs)]

AllFailedResult_LastErrorOnly(errs, cfg) ==
  [success |-> FALSE,
   transcript |-> 0,
   format |-> FormatOrTxt(cfg),
   language |-> LanguageOrEn(cfg),
   method |-> "none",
   error |-> <<"All extraction methods failed. Errors: ">>
               \o (IF errs = <<>> THEN <<>> ELSE errs[Len(errs)])]

\* the value extractWithFallback returns after the loop
AllFailedResult(errs, cfg) ==
  [success |-> FALSE,
   transcript |-> 0,
   format |-> FormatOrTxt(cfg),
   language |-> LanguageOrEn(cfg),
   method |-> "none",
   error |-> <<"All extraction methods failed. Errors: ">> \o JoinErrors(errs)]

----------------------------------------------------------------------------
(* services/response-formatter.js: the error response *)

\* the keywords _determineErrorCode searches for that the lower-cased text
\* of a message token contains
KeywordsIn(token) ==
  CASE token = "whisper-audio" -> {"whisper"}
    [] token = "Whisper API error: " -> {"whisper"}
    [] token = "OpenAI API key not configured for audio transcription" ->
         {"openai"}
    [] token = "youtube-transcript: No transcript data available" ->
         {"no transcript"}
    [] OTHER -> {}

\* lowerMessage.includes(keyword)
MessageIncludes(message, keyword) ==
  \E i \in 1..Len(message) : keyword \in KeywordsIn(message[i])

_determineErrorCode(message) ==
  IF message = <<>> THEN "ALL_METHODS_FAILED"
  ELSE IF MessageIncludes(message, "invalid") /\ MessageIncludes(message, "url")
  THEN "INVALID_URL"
  ELSE IF MessageIncludes(message, "invalid") /\ MessageIncludes(message, "video")
  THEN "INVALID_VIDEO_ID"
  ELSE IF MessageIncludes(message, "not found")
            \/ MessageIncludes(message, "unavailable")
  THEN "VIDEO_NOT_FOUND"
  ELSE IF MessageIncludes(message, "private")
            \/ MessageIncludes(message, "access denied")
  THEN "VIDEO_PRIVATE"
  ELSE IF MessageIncludes(message, "restricted")
            \/ MessageIncludes(message, "blocked")
  THEN "VIDEO_RESTRICTED"
  ELSE IF MessageIncludes(message, "no captions")
            \/ MessageIncludes(message, "no transcript")
  THEN "NO_CAPTIONS_AVAILABLE"
  ELSE IF MessageIncludes(message, "audio download")
            \/ MessageIncludes(message, "download failed")
  THEN "AUDIO_DOWNLOAD_FAILED"
  ELSE IF MessageIncludes(message, "whisper") \/ MessageIncludes(message, "openai")
  THEN "WHISPER_API_ERROR"
  ELSE IF MessageIncludes(message, "all methods failed")
  THEN "ALL_METHODS_FAILED"
  ELSE IF MessageIncludes(message, "rate limit") THEN "RATE_LIMIT_EXCEEDED"
  ELSE IF MessageIncludes(message, "quota") THEN "QUOTA_EXCEEDED"
  ELSE "ALL_METHODS_FAILED"

_getHttpStatusForError(errorCode) ==
  CASE errorCode \in {"INVALID_URL", "INVALID_VIDEO_ID", "MISSING_PARAMETERS"} -> 400
    [] errorCode = "VIDEO_PRIVATE" -> 403
    [] errorCode = "VIDEO_NOT_FOUND" -> 404
    [] errorCode \in {"RATE_LIMIT_EXCEEDED", "QUOTA_EXCEEDED"} -> 429
    [] errorCode \in {"NO_CAPTIONS_AVAILABLE", "AUDIO_DOWNLOAD_FAILED",
                      "WHISPER_API_ERROR", "ALL_METHODS_FAILED"} -> 502
    [] errorCode = "VIDEO_RESTRICTED" -> 451
    [] OTHER -> 500

\* formatError for an Error that has a message and no code
formatError(message) ==
  LET errorCode == _determineErrorCode(message)
  IN  [httpStatus |-> _getHttpStatusForError(errorCode),
       response |-> [success |-> FALSE, error |-> message, code |-> errorCode]]

\* formatValidationError(field, value, reason): the Error carries the code
\* INVALID_URL, which formatError uses as it is
formatValidationError(field, reason) ==
  [httpStatus |-> _getHttpStatusForError("INVALID_URL"),
   response |-> [success |-> FALSE,
                 error |-> <<"Invalid ", field, ": ", reason>>,
                 code |-> "INVALID_URL"]]

----------------------------------------------------------------------------
(* utils/youtube-validator.js *)

\* the character class [a-zA-Z0-9_-]
IdChars ==
  { "a","b","c","d","e","f","g","h","i","j","k","l","m","n","o","p","q","r",
    "s","t","u","v","w","x","y","z",
    "A","B","C","D","E","F","G","H","I","J","K","L","M","N","O","P","Q","R",
    "S","T","U","V","W","X","Y","Z",
    "0","1","2","3","4","5","6","7","8","9","_","-" }

\* /^[a-zA-Z0-9_-]{11}$/.test(text)
IsVideoIdText(text) ==
  Len(text) = 11 /\ \A i \in 1..11 : text[i] \in IdChars

\* input.match(/<prefix>([a-zA-Z0-9_-]{11})/): the group captured by the
\* leftmost match, <<>> when there is no match; the alternatives of prefix
\* have the same length
MatchIdAfter(input, prefixes) ==
  LET Hit(i, p) ==
        /\ i + Len(p) + 10 <= Len(input)
        /\ SubSeq(input, i, i + Len(p) - 1) = p
        /\ \A k \in 0..10 : input[i + Len(p) + k] \in IdChars
      starts == { i \in 1..Len(input) : \E p \in prefixes : Hit(i, p) }
  IN  IF starts = {} THEN <<>>
      ELSE LET first == CHOOSE i \in starts : \A j \in starts : i <= j
               p == CHOOSE q \in prefixes : Hit(first, q)
           IN  SubSeq(input, first + Len(p), first + Len(p) + 10)

\* the patterns of extractVideoId, in the order they are tried
IdPatterns ==
  << { <<"?","v","=">>, <<"&","v","=">> },
     { <<"y","o","u","t","u",".","b","e","/">> },
     { <<"y","o","u","t","u","b","e",".","c","o","m","/","e","m","b","e","d","/">> },
     { <<"y","o","u","t","u","b","e",".","c","o","m","/","s","h","o","r","t","s","/">> } >>

\* extractVideoId(input); <<>> stands for null
extractVideoId(input) ==
  IF input = <<>> THEN <<>>
  ELSE IF IsVideoIdText(input) THEN input
  ELSE LET hit == FindIndex([i \in 1..Len(IdPatterns) |->
                               MatchIdAfter(input, IdPatterns[i]) # <<>>])
       IN  IF hit = 0 THEN <<>> ELSE MatchIdAfter(input, IdPatterns[hit])

isValidVideoId(videoId) == videoId # <<>> /\ IsVideoIdText(videoId)

\* validateYouTubeUrl(input), without normalizedUrl
validateYouTubeUrl(input) ==
  IF input = <<>>
  THEN [isValid |-> FALSE, videoId |-> <<>>,
        error |-> "Input must be a non-empty string"]
  ELSE TheOnly({
         IF videoId = <<>>
         THEN [isValid |-> FALSE, videoId |-> <<>>,
               error |-> "Invalid YouTube URL format or video ID"]
         ELSE IF ~isValidVideoId(videoId)
         THEN [isValid |-> FALSE, videoId |-> videoId,
               error |-> "Invalid video ID format (must be 11 characters)"]
         ELSE [isValid |-> TRUE, videoId |-> videoId, error |-> ""]
         : videoId \in {extractVideoId(trim(input))} })

----------------------------------------------------------------------------
(* Inputs of the model *)

VideoId == <<"d","Q","w","4","w","9","W","g","X","c","Q">>

Titles ==
  { <<"N","e","v","e","r">>, <<"V","i","d","e","o"," ","e","s","s","a","y">> }

FlowLanguages == { <<"e","n">>, <<"e","s">> }

FlowAvailable == { <<<<"e","n">>>>, <<<<"e","n","-","G","B">>, <<"f","r">>>> }

Durations == {5, 300}

\* what VideoMetadataExtractor.getVideoMetadata can return: a video without
\* caption tracks has an empty language list
Metadatas ==
  { [videoId |-> VideoId, title |-> t, duration |-> d, isLive |-> l,
     isUpcoming |-> u, hasClosedCaptions |-> c, availableLanguages |-> a] :
      t \in Titles, d \in Durations, l \in BOOLEAN, u \in {FALSE},
      c \in {TRUE}, a \in FlowAvailable }
  \cup
  { [videoId |-> VideoId, title |-> t, duration |-> d, isLive |-> l,
     isUpcoming |-> u, hasClosedCaptions |-> c, availableLanguages |-> a] :
      t \in Titles, d \in Durations, l \in BOOLEAN, u \in {FALSE},
      c \in {FALSE}, a \in {<<>>} }

Methods ==
  {"auto", YOUTUBE_TRANSCRIPT, YOUTUBE_CAPTION_EXTRACTOR, WHISPER_AUDIO, "bogus"}

\* values of the format parameter; the last one is not a supported format
Formats == {"txt", "srt", "xml"}

WatchUrl(id) == <<"h","t","t","p","s",":","/","/","w","w","w",".","y","o","u","t","u","b","e",".","c","o","m","/","w","a","t","c","h","?","v","=">> \o id

\* a watch URL that carries an id of 14 characters
OverlongIdUrl == WatchUrl(VideoId \o <<"x","y","z">>)

\* an id of 7 characters
ShortId == <<"d","Q","w","4","w","9","W">>

\* values of the url parameter; <<>> is a request without one
Urls == { WatchUrl(VideoId), OverlongIdUrl, ShortId, WatchUrl(ShortId), <<>> }

Queries ==
  [method : Methods, fallbackToAudio : {"true", "false"},
   lang : FlowLanguages, format : Formats, url : {WatchUrl(VideoId)}]
  \cup [method : {"auto"}, fallbackToAudio : {"true"},
        lang : FlowLanguages, format : {"txt"}, url : Urls]

Item(textLength) == [text |-> textLength, offset |-> 0, duration |-> 1500]

RawTranscripts ==
  { <<Item(0)>>, <<Item(50)>>, <<Item(51)>>,
    <<Item(20), [text |-> 29, start |-> 2, dur |-> 3]>>,
    <<Item(20), Item(30)>>,
    <<Item(40), Item(40), Item(38)>> }

AudioSizes == {500000, 999999, 1000000}

WhisperResponses ==
  { [language |-> <<"e","n","g","l","i","s","h">>, segments |-> <<>>],
    [text |-> 0],
    [text |-> 50, language |-> <<"e","n","g","l","i","s","h">>],
    [text |-> 51],
    [text |-> 200, language |-> <<"e","n","g","l","i","s","h">>,
     segments |-> <<[text |-> 200, start |-> 0, duration |-> 1500]>>] }

\* the replies the external libraries can give to one invocation of method
Replies(method, cfg) ==
  CASE method = YOUTUBE_TRANSCRIPT -> { [raw |-> r] : r \in RawTranscripts \cup {<<>>} }
    [] method = YOUTUBE_CAPTION_EXTRACTOR ->
         { [attempt |-> 0, raw |-> <<>>] } \cup
         { [attempt |-> k, raw |-> r] :
             k \in 1..Min(Len(CaptionExtractorLanguages(cfg)), MaxLanguageAttempts),
             r \in RawTranscripts \cup {<<>>} }
    [] method = WHISPER_AUDIO ->
         { [download |-> "throw"] } \cup
         { [download |-> "ok", byteLength |-> b, whisper |-> "throw"] :
             b \in AudioSizes } \cup
         { [download |-> "ok", byteLength |-> b, whisper |-> "ok", response |-> w] :
             b \in AudioSizes, w \in WhisperResponses }
    [] OTHER -> { [none |-> TRUE] }

----------------------------------------------------------------------------
(* index.js: the GET /transcript handler, from the metadata step on (the   *)
(* request has a valid url)                                                *)

Pending == [pending |-> TRUE]

NoCall == [none |-> TRUE]

FlowInit ==
  /\ pc = "validate"
  /\ query \in Queries
  /\ openai \in BOOLEAN
  /\ metadata = Pending
  /\ strategies = <<>>
  /\ config = Pending
  /\ idx = 0
  /\ errors = <<>>
  /\ calls = <<>>
  /\ outcomes = <<>>
  /\ result = Pending
  /\ response = Pending

FlowIdle ==
  /\ pc = "idle"
  /\ query = Pending
  /\ openai = FALSE
  /\ metadata = Pending
  /\ strategies = <<>>
  /\ config = Pending
  /\ idx = 0
  /\ errors = <<>>
  /\ calls = <<>>
  /\ outcomes = <<>>
  /\ result = Pending
  /\ response = Pending

CallIdle ==
  /\ args = NoCall
  /\ ret = NoCall
  /\ called = "none"

\* no backend is running
BackendIdle ==
  /\ step = "idle"
  /\ trace = <<>>
  /\ tmpDirs = {}
  /\ locals = NoCall

ClientsIdle ==
  /\ ytdl = NoCall
  /\ fetches = <<>>

\* the object built when getVideoMetadata throws
MinimalMetadata ==
  [videoId |-> VideoId,
   title |-> <<"V","i","d","e","o"," ">> \o VideoId,
   hasClosedCaptions |-> FALSE,
   availableLanguages |-> <<>>]

\* Step 1: the url parameter is required and validated; a request that
\* fails is answered at once
Validate ==
  /\ pc = "validate"
  /\ IF query.url = <<>>
     THEN /\ response' = formatValidationError("url", "URL parameter is required")
          /\ pc' = "rejected"
     ELSE IF ~validateYouTubeUrl(query.url).isValid
     THEN /\ response' = formatValidationError("url",
                                               validateYouTubeUrl(query.url).error)
          /\ pc' = "rejected"
     ELSE /\ pc' = "metadata"
          /\ UNCHANGED response
  /\ UNCHANGED <<query, openai, metadata, strategies, config, idx, errors, calls,
                 outcomes, result>>
  /\ UNCHANGED <<callVars, backendVars, clientVars>>

\* Step 2: await metadataExtractor.getVideoMetadata(videoId), for the id
\* the validation extracted
GetMetadata ==
  /\ pc = "metadata"
  /\ \E videoId \in {validateYouTubeUrl(query.url).videoId} :
       \/ \E md \in Metadatas : metadata' = [md EXCEPT !.videoId = videoId]
       \/ metadata' = [MinimalMetadata EXCEPT
                         !.videoId = videoId,
                         !.title = <<"V","i","d","e","o"," ">> \o videoId]
  /\ pc' = "strategy"
  /\ UNCHANGED <<query, openai, strategies, config, idx, errors, calls,
                 outcomes, result, response>>
  /\ UNCHANGED <<callVars, backendVars, clientVars>>

Preferences(q) ==
  [preferredLanguage |-> q.lang,
   format |-> q.format,
   fallbackToAudio |-> (q.fallbackToAudio = "true")]

\* Step 3: the list of strategies
DetermineStrategies(q, md) ==
  IF q.method = "auto"
  THEN IF ~md.hasClosedCaptions
            \/ startsWith(md.title, <<"V","i","d","e","o"," ">>)
       THEN <<"youtube-transcript", "youtube-caption-extractor">>
              \o (IF q.fallbackToAudio = "true" THEN <<"whisper-audio">> ELSE <<>>)
       ELSE selectStrategy(md, Preferences(q))
  ELSE <<q.method>>
         \o (IF q.fallbackToAudio = "true" /\ q.method # "whisper-audio"
             THEN <<"whisper-audio">> ELSE <<>>)

\* strategies[0]
FirstOrUndefined(list) == IF list = <<>> THEN "undefined" ELSE list[1]

\* Steps 3 and 4 up to the call of extractWithFallback
DetermineStrategy ==
  /\ pc = "strategy"
  /\ strategies' = DetermineStrategies(query, metadata)
  /\ config' = getMethodConfig(FirstOrUndefined(strategies'), metadata,
                               Preferences(query))
  /\ idx' = 0
  /\ errors' = <<>>
  /\ pc' = "extract"
  /\ UNCHANGED <<query, openai, metadata, calls, outcomes, result, response>>
  /\ UNCHANGED <<callVars, backendVars, clientVars>>

\* one iteration of the loop of extractWithFallback
AttemptMethod ==
  /\ pc = "extract"
  /\ idx < Len(strategies)
  /\ LET method == strategies[idx + 1]
     IN  \E reply \in Replies(method, config) :
           LET res == extractTranscript(method, config, reply, openai)
           IN  /\ calls' = Append(calls, method)
               /\ outcomes' = Append(outcomes, res)
               /\ IF IsSufficient(res)
                  THEN /\ result' = res
                       /\ pc' = "returned"
                       /\ UNCHANGED <<idx, errors>>
                  ELSE /\ errors' = Append(errors, InsufficientEntry(method, res))
                       /\ idx' = idx + 1
                       /\ UNCHANGED <<result, pc>>
  /\ UNCHANGED <<query, openai, metadata, strategies, config, response>>
  /\ UNCHANGED <<callVars, backendVars, clientVars>>

\* the loop of extractWithFallback is over: all methods failed
AllMethodsFailed ==
  /\ pc = "extract"
  /\ idx >= Len(strategies)
  /\ result' = AllFailedResult(errors, config)
  /\ pc' = "returned"
  /\ UNCHANGED <<query, openai, metadata, strategies, config, idx, errors,
                 calls, outcomes, response>>
  /\ UNCHANGED <<callVars, backendVars, clientVars>>

\* Step 5 and the failure path: the handler sends its response
Respond ==
  /\ pc = "returned"
  /\ response = Pending
  /\ response' = IF result.success
                 THEN [httpStatus |-> 200,
                       response |-> [success |-> TRUE, method |-> result.method]]
                 ELSE formatError(result.error)
  /\ UNCHANGED <<pc, query, openai, metadata, strategies, config, idx, errors,
                 calls, outcomes, result>>
  /\ UNCHANGED <<callVars, backendVars, clientVars>>

Init == FlowInit /\ CallIdle /\ BackendIdle /\ ClientsIdle

Next ==
  \/ Validate
  \/ GetMetadata
  \/ DetermineStrategy
  \/ AttemptMethod
  \/ AllMethodsFailed
  \/ Respond

Spec == Init /\ [][Next]_vars

----------------------------------------------------------------------------
(* Direct calls of the service methods (as GET /extraction-methods and the *)
(* language configuration make them)                                       *)

SelectDurations == {0, 1, 9, 10, 300, 8000}

SelectAvailable ==
  { <<>>, <<<<"e","n">>>>, <<<<"e","n","-","G","B">>, <<"f","r">>>> }

SelectMetadatas ==
  [videoId : {VideoId}, title : {<<"N","e","v","e","r">>},
   duration : SelectDurations, isLive : BOOLEAN, isUpcoming : BOOLEAN,
   hasClosedCaptions : BOOLEAN, availableLanguages : SelectAvailable]

\* preferences objects, any property of which may be missing
SelectPreferences ==
  { Pick(full, keys) :
      full \in [preferredLanguage : FlowLanguages, format : {"txt"},
                fallbackToAudio : BOOLEAN],
      keys \in SUBSET {"preferredLanguage", "format", "fallbackToAudio"} }

SelectInit ==
  /\ FlowIdle
  /\ ClientsIdle
  /\ BackendIdle
  /\ args \in [metadata : SelectMetadatas, preferences : SelectPreferences]
  /\ ret = NoCall
  /\ called = "none"

CallSelectStrategy ==
  /\ called = "none"
  /\ "metadata" \in DOMAIN args
  /\ ret' = [value |-> selectStrategy(args.metadata, args.preferences)]
  /\ called' = "selectStrategy"
  /\ UNCHANGED args
  /\ UNCHANGED <<flowVars, backendVars, clientVars>>

SelectNext == CallSelectStrategy

SpecSelect == SelectInit /\ [][SelectNext]_vars

\* language codes as the metadata extractor yields them: never the empty
\* string (a caption track without a code is dropped)
LanguageCodes ==
  { <<"e","n">>, <<"e","n","-","G","B">>, <<"e","n","-","U","S">>, <<"E","N">>,
    <<"e","s">>, <<"e","s","-","M","X">>, <<" ","f","r"," ">>, <<"n","l">>,
    <<"n","b">>, <<"x","x">> }

\* the sequences over S of length at most n
RECURSIVE SeqsUpTo(_, _)
SeqsUpTo(S, n) ==
  IF n = 0 THEN {<<>>}
  ELSE LET shorter == SeqsUpTo(S, n - 1)
       IN  shorter \cup { Append(q, x) : q \in shorter, x \in S }

LanguageArgs ==
  [availableLanguages :
     {NoArray} \cup { Array(list) : list \in SeqsUpTo(LanguageCodes, MaxAvailable) },
   preferredLanguage : LanguageCodes \cup {<<>>}]

LanguageInit ==
  /\ FlowIdle
  /\ ClientsIdle
  /\ BackendIdle
  /\ args \in LanguageArgs
  /\ ret = NoCall
  /\ called = "none"

CallFindBestLanguageMatch ==
  /\ called = "none"
  /\ "preferredLanguage" \in DOMAIN args
  /\ ret' = findBestLanguageMatch(args.availableLanguages, args.preferredLanguage)
  /\ called' = "findBestLanguageMatch"
  /\ UNCHANGED args
  /\ UNCHANGED <<flowVars, backendVars, clientVars>>

LanguageNext == CallFindBestLanguageMatch

SpecLanguage == LanguageInit /\ [][LanguageNext]_vars

\* the segments handed to _formatAsSrt
MaxSegments == 2

SrtStarts == {0, 1500, 3661001, 86399999}

SrtDurations == {0, 1500}

SrtSegments == [text : {0, 3}, start : SrtStarts, duration : SrtDurations]

SrtInit ==
  /\ FlowIdle
  /\ ClientsIdle
  /\ BackendIdle
  /\ args \in [segments : SeqsUpTo(SrtSegments, MaxSegments)]
  /\ ret = NoCall
  /\ called = "none"

CallFormatAsSrt ==
  /\ called = "none"
  /\ "segments" \in DOMAIN args
  /\ ret' = [text |-> SrtText(args.segments), length |-> _formatAsSrt(args.segments)]
  /\ called' = "_formatAsSrt"
  /\ UNCHANGED args
  /\ UNCHANGED <<flowVars, backendVars, clientVars>>

SrtNext == CallFormatAsSrt

SpecSrt == SrtInit /\ [][SrtNext]_vars

\* the metadata handed to estimateExtractionTime: durations around the
\* points where each estimate reaches its clamp, and metadata without a
\* duration (the object built when getVideoMetadata throws)
EstimateDurations ==
  {0, 1, 2, 9, 10, 299, 300, 301, 499, 500, 501, 2699, 2700, 2701, 9000}

EstimateMetadatas ==
  { [videoId |-> VideoId, duration |-> d] : d \in EstimateDurations }
    \cup { [videoId |-> VideoId] }

EstimateInit ==
  /\ FlowIdle
  /\ ClientsIdle
  /\ BackendIdle
  /\ args \in [method : {YOUTUBE_TRANSCRIPT, YOUTUBE_CAPTION_EXTRACTOR,
                         WHISPER_AUDIO, "bogus"},
                first : EstimateMetadatas, second : EstimateMetadatas]
  /\ ret = NoCall
  /\ called = "none"

\* two calls for the same method
CallEstimateExtractionTime ==
  /\ called = "none"
  /\ "first" \in DOMAIN args
  /\ ret' = [first |-> estimateExtractionTime(args.method, args.first),
             second |-> estimateExtractionTime(args.method, args.second)]
  /\ called' = "estimateExtractionTime"
  /\ UNCHANGED args
  /\ UNCHANGED <<flowVars, backendVars, clientVars>>

EstimateNext == CallEstimateExtractionTime

SpecEstimate == EstimateInit /\ [][EstimateNext]_vars

----------------------------------------------------------------------------
(* Direct calls of getLanguageVariants *)

\* the codes of the table (keys and variants) and codes outside it
VariantCodes ==
  supportedLanguages
    \cup UNION { { LANGUAGE_MAPPINGS[i].variants[j] :
                    j \in 1..Len(LANGUAGE_MAPPINGS[i].variants) } :
                 i \in 1..Len(LANGUAGE_MAPPINGS) }
    \cup { <<"x","x">>, <<"E","N">>, <<" ","e","n"," ">>, <<"e","n","-","u","s">>,
           <<" ","X","x"," ">>, <<"t","l","h","-","Q","o">> }

VariantsInit ==
  /\ FlowIdle
  /\ ClientsIdle
  /\ BackendIdle
  /\ args \in [languageCode : VariantCodes]
  /\ ret = NoCall
  /\ called = "none"

CallGetLanguageVariants ==
  /\ called = "none"
  /\ "languageCode" \in DOMAIN args
  /\ ret' = getLanguageVariants(args.languageCode)
  /\ called' = "getLanguageVariants"
  /\ UNCHANGED args
  /\ UNCHANGED <<flowVars, backendVars, clientVars>>

VariantsNext == CallGetLanguageVariants

SpecVariants == VariantsInit /\ [][VariantsNext]_vars

----------------------------------------------------------------------------
(* services/unified-extractor.js: one extractTranscript call, backend by    *)
(* backend and await by await.  An action is the completion of the awaited  *)
(* library call together with the code that runs up to the next await; the  *)
(* trace holds the library calls in the order they are issued.              *)

Call(name, params) == [call |-> name, params |-> params]

\* the parameters of the fetchTranscript calls of _extractWithYouTubeTranscript,
\* in the order of its methods array; the second call has no options
FetchAttempts(cfg) ==
  << (IF "language" \in DOMAIN cfg THEN [lang |-> cfg.language] ELSE EmptyObject)
       @@ [country |-> IF "country" \in DOMAIN cfg THEN cfg.country ELSE "US"],
     EmptyObject >>
  \o (IF "fallbackLanguages" \in DOMAIN cfg
      THEN [i \in 1..Len(cfg.fallbackLanguages) |->
              [lang |-> cfg.fallbackLanguages[i], country |-> "US"]]
      ELSE <<>>)

\* config.languageConfig && config.languageConfig.fallbackLanguages
HasLanguageList(cfg) ==
  "languageConfig" \in DOMAIN cfg
    /\ "fallbackLanguages" \in DOMAIN cfg.languageConfig

\* the parameters of the getSubtitles calls of _extractWithCaptionExtractor
SubtitleAttempts(cfg) ==
  IF HasLanguageList(cfg)
  THEN [i \in 1..Len(CaptionExtractorLanguages(cfg)) |->
          [lang |-> CaptionExtractorLanguages(cfg)[i]]]
  ELSE <<[lang |-> cfg.language], EmptyObject>>

HintConfidenceThreshold == 70

\* config.languageHint && config.languageConfig?.matchConfidence > 0.7
UsesLanguageHint(cfg) ==
  /\ "languageHint" \in DOMAIN cfg
  /\ cfg.languageHint # <<>>
  /\ "languageConfig" \in DOMAIN cfg
  /\ "matchConfidence" \in DOMAIN cfg.languageConfig
  /\ cfg.languageConfig.matchConfidence > HintConfidenceThreshold

\* config.language && config.language !== 'auto'
UsesSpecifiedLanguage(cfg) ==
  /\ "language" \in DOMAIN cfg
  /\ cfg.language # <<>>
  /\ cfg.language # <<"a","u","t","o">>

\* the object _transcribeWithWhisper hands to transcriptions.create (the
\* file stream is left out)
TranscriptionConfig(cfg) ==
  [model |-> IF "model" \in DOMAIN cfg THEN cfg.model ELSE "whisper-1",
   response_format |-> IF "response_format" \in DOMAIN cfg
                       THEN cfg.response_format ELSE "verbose_json"]
  @@ (IF UsesLanguageHint(cfg)
      THEN [language |-> normalizeLanguageCode(cfg.languageHint)]
      ELSE IF UsesSpecifiedLanguage(cfg)
      THEN [language |-> normalizeLanguageCode(cfg.language)]
      ELSE EmptyObject)
  @@ Pick(cfg, {"timestamp_granularities"})

RemoveDir_Noop(dirs, dir) == dirs

\* fs.rmSync(tmpDir, { recursive: true, force: true })
RemoveDir(dirs, dir) == dirs \ {dir}

BackendMetadatas ==
  { [videoId |-> VideoId, title |-> <<"N","e","v","e","r">>, duration |-> 300,
     isLive |-> FALSE, isUpcoming |-> FALSE,
     hasClosedCaptions |-> (a # <<>>), availableLanguages |-> a] :
      a \in SelectAvailable }

\* the configs a caller passes: what getMethodConfig builds for the first
\* strategy of a request, and a plain object
BackendConfigs ==
  { getMethodConfig(first, md, prefs) :
      first \in {YOUTUBE_TRANSCRIPT, YOUTUBE_CAPTION_EXTRACTOR, WHISPER_AUDIO},
      md \in BackendMetadatas,
      prefs \in [preferredLanguage : FlowLanguages, format : Formats,
                 fallbackToAudio : {TRUE}] }
    \cup { [language |-> <<"e","n">>, format |-> "txt"] }

BackendRaws == { <<>>, <<Item(50)>>, <<Item(20), Item(30)>>, <<Item(40), Item(40), Item(38)>> }

\* what an awaited library call can do: throw, or return a value
LibraryThrows == [kind |-> "throw"]

LibraryReturns(value) == [kind |-> "ok", value |-> value]

BackendInit ==
  /\ FlowIdle
  /\ ClientsIdle
  /\ args \in [method : {YOUTUBE_TRANSCRIPT, YOUTUBE_CAPTION_EXTRACTOR,
                         WHISPER_AUDIO, "bogus"},
                config : BackendConfigs, openai : BOOLEAN]
  /\ ret = NoCall
  /\ called = "none"
  /\ step = "start"
  /\ trace = <<>>
  /\ tmpDirs = {}
  /\ locals = [made |-> 0, dirsCreated |-> 0, byteLength |-> -1,
               failure |-> "none", reply |-> NoCall]

\* the backend is over (it returned or threw) and extractTranscript returns
Finish(reply, failure) ==
  /\ ret' = extractTranscript(args.method, args.config, reply, args.openai)
  /\ called' = "extractTranscript"
  /\ step' = "done"
  /\ locals' = [locals EXCEPT !.failure = failure, !.reply = reply]

\* extractTranscript: the switch, and the backend up to its first await
Dispatch ==
  /\ step = "start"
  /\ CASE args.method = YOUTUBE_TRANSCRIPT ->
            /\ trace' = <<Call("fetchTranscript", FetchAttempts(args.config)[1])>>
            /\ step' = "fetch"
            /\ locals' = [locals EXCEPT !.made = 1]
            /\ UNCHANGED <<ret, called>>
       [] args.method = YOUTUBE_CAPTION_EXTRACTOR ->
            /\ trace' = <<Call("getSubtitles", SubtitleAttempts(args.config)[1])>>
            /\ step' = "subtitles"
            /\ locals' = [locals EXCEPT !.made = 1]
            /\ UNCHANGED <<ret, called>>
       [] args.method = WHISPER_AUDIO ->
            IF ~args.openai
            THEN Finish(NoCall, "unconfigured") /\ UNCHANGED trace
            ELSE /\ trace' = <<Call("getInfo", EmptyObject)>>
                 /\ step' = "getInfo"
                 /\ UNCHANGED <<ret, called, locals>>
       [] OTHER -> Finish(NoCall, "unsupported") /\ UNCHANGED trace
  /\ UNCHANGED <<args, tmpDirs>>
  /\ UNCHANGED <<flowVars, clientVars>>

\* a fetchTranscript call of _extractWithYouTubeTranscript completes
FetchCompletes ==
  /\ step = "fetch"
  /\ \E reply \in {LibraryThrows} \cup { LibraryReturns(r) : r \in BackendRaws } :
       IF reply.kind = "ok" /\ Len(reply.value) > 0
       THEN Finish([raw |-> reply.value], "none") /\ UNCHANGED trace
       ELSE IF locals.made < Len(FetchAttempts(args.config))
       THEN /\ trace' = Append(trace, Call("fetchTranscript",
                                FetchAttempts(args.config)[locals.made + 1]))
            /\ locals' = [locals EXCEPT !.made = @ + 1]
            /\ UNCHANGED <<ret, called, step>>
       ELSE Finish([raw |-> <<>>], "fetch") /\ UNCHANGED trace
  /\ UNCHANGED <<args, tmpDirs>>
  /\ UNCHANGED <<flowVars, clientVars>>

\* a getSubtitles call of _extractWithCaptionExtractor completes
SubtitlesComplete ==
  /\ step = "subtitles"
  /\ \E reply \in {LibraryThrows} \cup { LibraryReturns(r) : r \in BackendRaws } :
       IF reply.kind = "ok"
       THEN Finish([attempt |-> locals.made, raw |-> reply.value],
                   IF Len(reply.value) = 0 THEN "fetch" ELSE "none")
              /\ UNCHANGED trace
       ELSE IF locals.made < Len(SubtitleAttempts(args.config))
       THEN /\ trace' = Append(trace, Call("getSubtitles",
                                SubtitleAttempts(args.config)[locals.made + 1]))
            /\ locals' = [locals EXCEPT !.made = @ + 1]
            /\ UNCHANGED <<ret, called, step>>
       ELSE Finish([attempt |-> 0, raw |-> <<>>], "fetch") /\ UNCHANGED trace
  /\ UNCHANGED <<args, tmpDirs>>
  /\ UNCHANGED <<flowVars, clientVars>>

\* _downloadYouTubeAudio: ytdl.getInfo completes; a format is chosen, the
\* staging directory is made and the download is started
GetInfoCompletes ==
  /\ step = "getInfo"
  /\ \/ /\ Finish([download |-> "throw"], "download")
        /\ UNCHANGED <<trace, tmpDirs>>
     \/ /\ tmpDirs' = tmpDirs \cup {"yt-audio-"}
        /\ trace' = Append(trace, Call("downloadFromInfo", EmptyObject))
        /\ locals' = [locals EXCEPT !.dirsCreated = @ + 1]
        /\ step' = "pipeline"
        /\ UNCHANGED <<ret, called>>
  /\ UNCHANGED args
  /\ UNCHANGED <<flowVars, clientVars>>

\* _downloadYouTubeAudio: the pipeline completes and the staging directory
\* is removed; then the size check of _extractWithWhisperAudio and
\* _transcribeWithWhisper up to the call of transcriptions.create
PipelineCompletes ==
  /\ step = "pipeline"
  /\ \/ /\ tmpDirs' = RemoveDir(tmpDirs, "yt-audio-")
        /\ Finish([download |-> "throw"], "download")
        /\ UNCHANGED trace
     \/ \E b \in AudioSizes :
          IF AudioTooSmall(b)
          THEN /\ tmpDirs' = RemoveDir(tmpDirs, "yt-audio-")
               /\ Finish([download |-> "ok", byteLength |-> b], "size")
               /\ UNCHANGED trace
          ELSE /\ tmpDirs' = RemoveDir(tmpDirs, "yt-audio-") \cup {"whisper-"}
               /\ trace' = Append(trace, Call("transcriptions.create",
                                              TranscriptionConfig(args.config)))
               /\ locals' = [locals EXCEPT !.dirsCreated = @ + 1,
                                           !.byteLength = b]
               /\ step' = "whisper"
               /\ UNCHANGED <<ret, called>>
  /\ UNCHANGED args
  /\ UNCHANGED <<flowVars, clientVars>>

\* _transcribeWithWhisper: transcriptions.create completes and the staging
\* directory is removed
WhisperCompletes ==
  /\ step = "whisper"
  /\ tmpDirs' = RemoveDir(tmpDirs, "whisper-")
  /\ \/ Finish([download |-> "ok", byteLength |-> locals.byteLength,
                whisper |-> "throw"], "transcription")
     \/ \E w \in WhisperResponses :
          Finish([download |-> "ok", byteLength |-> locals.byteLength,
                  whisper |-> "ok", response |-> w], "none")
  /\ UNCHANGED <<args, trace>>
  /\ UNCHANGED <<flowVars, clientVars>>

BackendNext ==
  \/ Dispatch
  \/ FetchCompletes
  \/ SubtitlesComplete
  \/ GetInfoCompletes
  \/ PipelineCompletes
  \/ WhisperCompletes

SpecBackend == BackendInit /\ [][BackendNext]_vars

----------------------------------------------------------------------------
(* services/metadata-extractor.js: concurrent calls of _getInfoRobust, one   *)
(* per request being served.  The handler is async and the extractor is a   *)
(* singleton of the process, so a second request can enter while the first  *)
(* awaits ytdl.getInfo.  The default player client is state of the ytdl     *)
(* module.  When getInfo reads it is the library's affair: at the call, or  *)
(* after a suspension of its own.                                           *)

MaxRequests == 2

Requests == 1..MaxRequests

\* (process.env.YTDL_CLIENTS || 'ANDROID,IOS,WEB') split, trimmed and
\* upper-cased
ClientLists == { <<"ANDROID", "IOS", "WEB">>, <<"WEB", "ANDROID">> }

\* the builds of the library: with or without setDefaultClient, reading the
\* default client at the call of getInfo or later
YtdlBuilds ==
  [hasSetDefaultClient : BOOLEAN, readsClient : {"at call", "later"},
   defaultClient : {"WEB"}]

ClientsInit ==
  /\ FlowIdle
  /\ CallIdle
  /\ BackendIdle
  /\ ytdl \in YtdlBuilds
  /\ \E clients \in ClientLists :
       fetches = [r \in Requests |->
                    [clients |-> clients, at |-> "called", made |-> 0,
                     attempts |-> <<>>]]

\* if (ytdl.setDefaultClient) ytdl.setDefaultClient(client)
setDefaultClient(lib, client) ==
  IF lib.hasSetDefaultClient THEN [lib EXCEPT !.defaultClient = client] ELSE lib

\* ytdl.getInfo(url, ...) is called: the attempt that starts, with the client
\* the request selected and the client the library runs it with
Attempt(lib, client) ==
  [client |-> client,
   ranWith |-> IF lib.readsClient = "at call" THEN lib.defaultClient ELSE "unread"]

\* one turn of the loop of _getInfoRobust up to its await
IssueAttempt(r) ==
  LET client == fetches[r].clients[fetches[r].made + 1]
  IN  /\ ytdl' = setDefaultClient(ytdl, client)
      /\ fetches' = [fetches EXCEPT
                       ![r].made = @ + 1,
                       ![r].at = "getInfo",
                       ![r].attempts = Append(@, Attempt(ytdl', client))]

CurrentAttempt(r) == fetches[r].attempts[Len(fetches[r].attempts)]

\* a request enters _getInfoRobust
EnterGetInfoRobust(r) ==
  /\ fetches[r].at = "called"
  /\ IssueAttempt(r)
  /\ UNCHANGED <<flowVars, callVars, backendVars>>

\* inside the library: getInfo reads the default client for its request
GetInfoReadsClient(r) ==
  /\ fetches[r].at = "getInfo"
  /\ CurrentAttempt(r).ranWith = "unread"
  /\ fetches' = [fetches EXCEPT
                   ![r].attempts[Len(fetches[r].attempts)].ranWith =
                     ytdl.defaultClient]
  /\ UNCHANGED ytdl
  /\ UNCHANGED <<flowVars, callVars, backendVars>>

\* getInfo rejects: the catch block, and the next turn of the loop or the
\* throw after it
GetInfoRejects(r) ==
  /\ fetches[r].at = "getInfo"
  /\ IF fetches[r].made < Len(fetches[r].clients)
     THEN IssueAttempt(r)
     ELSE /\ fetches' = [fetches EXCEPT ![r].at = "threw"]
          /\ UNCHANGED ytdl
  /\ UNCHANGED <<flowVars, callVars, backendVars>>

\* getInfo resolves, after it has made its player request
GetInfoResolves(r) ==
  /\ fetches[r].at = "getInfo"
  /\ CurrentAttempt(r).ranWith # "unread"
  /\ fetches' = [fetches EXCEPT ![r].at = "returned"]
  /\ UNCHANGED ytdl
  /\ UNCHANGED <<flowVars, callVars, backendVars>>

ClientsNext ==
  \E r \in Requests :
    \/ EnterGetInfoRobust(r)
    \/ GetInfoReadsClient(r)
    \/ GetInfoRejects(r)
    \/ GetInfoResolves(r)

SpecClients == ClientsInit /\ [][ClientsNext]_vars

----------------------------------------------------------------------------
(* Properties of the fallback loop, checked under Spec *)

\* an outcome the executor has to accept: success with more than 50 characters
Acceptable(outcome) ==
  outcome.success /\ "transcript" \in DOMAIN outcome /\ outcome.transcript > 50

Returned == pc = "returned"

\* C1: extractWithFallback returns the outcome of the first technique, in
\* list order, that succeeded with more than 50 characters, and invokes no
\* technique that comes after it: the calls made are a prefix of the list, an
\* acceptable outcome is the last one produced and is the value returned, and
\* no technique is invoked after it.
C1_FirstAcceptableIsReturned ==
  /\ Len(calls) = Len(outcomes)
  /\ Len(calls) <= Len(strategies)
  /\ calls = SubSeq(strategies, 1, Len(calls))
  /\ \A k \in 1..Len(outcomes) :
       Acceptable(outcomes[k]) =>
         /\ k = Len(outcomes)
         /\ Returned
         /\ result = outcomes[k]
         /\ result.method = strategies[k]

\* C1 witness: the second technique was accepted after the first one failed
\* and a third technique of the list was never invoked
C1_Witness ==
  /\ Returned
  /\ Len(strategies) = 3
  /\ Len(calls) = 2
  /\ ~outcomes[1].success
  /\ Acceptable(outcomes[2])
  /\ result = outcomes[2]

\* the technique names of an aggregated message, in the order they appear as
\* the head of an entry
RECURSIVE EntryNames(_)
EntryNames(message) ==
  IF Len(message) < 2 THEN <<>>
  ELSE IF message[2] = ": " THEN <<message[1]>> \o EntryNames(Tail(message))
  ELSE EntryNames(Tail(message))

\* C2: when every technique of the list fails or returns at most 50
\* characters, every listed technique has been invoked exactly once, in list
\* order, and the failure returned names every listed technique in attempt
\* order.
C2_AllFailedTriesEveryTechniqueOnce ==
  (Returned /\ \A k \in 1..Len(outcomes) : ~Acceptable(outcomes[k])) =>
    /\ calls = strategies
    /\ ~result.success
    /\ EntryNames(result.error) = strategies

\* C2 witness: three techniques were tried and all of them failed
C2_Witness ==
  /\ Returned
  /\ ~result.success
  /\ Len(strategies) = 3
  /\ calls = strategies
  /\ \E k \in 1..3 : outcomes[k].success

\* C3: a result returned with success=true has a transcript of more than 50
\* characters; an outcome with success=true and exactly 50 characters is
\* recorded as a failure and, when the list has a next technique, that
\* technique is tried.
C3_SuccessMeansOver50 ==
  /\ (Returned /\ result.success) => result.transcript > 50
  /\ \A k \in 1..Len(outcomes) :
       (outcomes[k].success /\ "transcript" \in DOMAIN outcomes[k]
          /\ outcomes[k].transcript = 50) =>
         /\ Len(errors) >= k
         /\ (Returned => result # outcomes[k])
         /\ (Returned /\ k < Len(strategies) => Len(calls) > k)

\* C3 witness: a technique returned exactly 50 characters, the next
\* technique was tried and its result accepted
C3_Witness ==
  /\ Returned
  /\ result.success
  /\ Len(outcomes) >= 2
  /\ outcomes[1].success
  /\ "transcript" \in DOMAIN outcomes[1]
  /\ outcomes[1].transcript = 50
  /\ result = outcomes[Len(outcomes)]

\* C4: the reason recorded for a technique that failed is that technique's
\* own error message, and the reason "insufficient content (N chars)" is
\* recorded only for an outcome with success=true and at most 50 characters.
C4_FailureReasonIsOwnMessage ==
  \A k \in 1..Len(errors) :
    IF outcomes[k].success
    THEN errors[k] = <<calls[k], ": ", "Insufficient content (",
                       ToString(TranscriptLength(outcomes[k])), " chars)">>
    ELSE errors[k] = <<calls[k], ": ">> \o outcomes[k].error

\* C7: in the auto flow, for metadata without captions and with audio
\* fallback enabled, audio transcription is the only technique attempted;
\* when its download is smaller than 1,000,000 bytes the final result is a
\* failure and no other technique was tried.
C7_NoCaptionsOnlyAudio ==
  (pc \in {"extract", "returned"} /\ query.method = "auto"
     /\ ~metadata.hasClosedCaptions /\ query.fallbackToAudio = "true") =>
    /\ strategies = <<"whisper-audio">>
    /\ \A k \in 1..Len(calls) : calls[k] = "whisper-audio"
    /\ (Returned /\ outcomes # <<>>
          /\ ~outcomes[Len(outcomes)].success
          /\ Head(outcomes[Len(outcomes)].error) = "Audio too small (") =>
         (~result.success /\ calls = <<"whisper-audio">>)

----------------------------------------------------------------------------
(* Properties of selectStrategy, checked under SpecSelect *)

Selected == called = "selectStrategy"

\* audio fallback is enabled: preferences say so or leave the default
FallbackEnabled(preferences) ==
  "fallbackToAudio" \notin DOMAIN preferences \/ preferences.fallbackToAudio

AllThreeMethods ==
  <<"youtube-transcript", "youtube-caption-extractor", "whisper-audio">>

\* C5 as stated: for all metadata with hasClosedCaptions=true, whatever
\* isLive, isUpcoming and duration are, and audio fallback enabled,
\* selectStrategy returns the three techniques in priority order.
C5_CaptionsGiveAllThree_Original ==
  (Selected /\ args.metadata.hasClosedCaptions
     /\ FallbackEnabled(args.preferences)) =>
    ret.value = AllThreeMethods

\* C5 amended: for all metadata with hasClosedCaptions=true that is not
\* live, not upcoming and whose duration is not strictly between 0 and 10
\* seconds, and audio fallback enabled, selectStrategy returns the three
\* techniques in priority order.
C5_SuitableCaptionsGiveAllThree ==
  (Selected /\ args.metadata.hasClosedCaptions
     /\ ~args.metadata.isLive /\ ~args.metadata.isUpcoming
     /\ ~(args.metadata.duration > 0 /\ args.metadata.duration < 10)
     /\ FallbackEnabled(args.preferences)) =>
    ret.value = AllThreeMethods

\* C5 witness: a captioned, suitable video whose caption languages do not
\* include the preferred one got the three techniques
C5_Witness ==
  /\ Selected
  /\ args.metadata.hasClosedCaptions
  /\ ~args.metadata.isLive
  /\ ~args.metadata.isUpcoming
  /\ args.metadata.duration = 300
  /\ args.metadata.availableLanguages = <<<<"e","n","-","G","B">>, <<"f","r">>>>
  /\ "preferredLanguage" \in DOMAIN args.preferences
  /\ args.preferences.preferredLanguage = <<"e","s">>
  /\ FallbackEnabled(args.preferences)
  /\ ret.value = AllThreeMethods

\* C6: for all metadata with isLive=true, selectStrategy returns
\* [whisper-audio] when audio fallback is enabled and [] otherwise, so no
\* caption technique is selected for live content.
C6_LiveIsAudioOnly ==
  (Selected /\ args.metadata.isLive) =>
    /\ ret.value = IF FallbackEnabled(args.preferences)
                   THEN <<"whisper-audio">> ELSE <<>>
    /\ \A k \in 1..Len(ret.value) :
         ret.value[k] \notin {"youtube-transcript", "youtube-caption-extractor"}

\* C6 witness: a live video with captions and fallback enabled got only the
\* audio technique
C6_Witness ==
  /\ Selected
  /\ args.metadata.isLive
  /\ args.metadata.hasClosedCaptions
  /\ ~args.metadata.isUpcoming
  /\ args.metadata.duration = 300
  /\ FallbackEnabled(args.preferences)
  /\ ret.value = <<"whisper-audio">>

----------------------------------------------------------------------------
(* Properties of findBestLanguageMatch, checked under SpecLanguage *)

Matched == called = "findBestLanguageMatch"

\* C8: for every available-language list that contains the preferred code
\* verbatim, the match kind is 'exact' and the confidence 1.0.
C8_VerbatimIsExact ==
  (Matched /\ args.availableLanguages.present
     /\ includes(args.availableLanguages.items, args.preferredLanguage)) =>
    /\ ret.matchType = "exact"
    /\ ret.confidence = 100

\* C8 witness: the preferred code is not in normalized form and stands
\* second in the list
C8_Witness ==
  /\ Matched
  /\ args.preferredLanguage = <<"E","N">>
  /\ args.availableLanguages = Array(<<<<"n","l">>, <<"E","N">>>>)
  /\ ret.matchType = "exact"

\* lang is a regional variant of code: code, a hyphen and a region
RegionalVariantOf(lang, code) ==
  /\ code # <<>>
  /\ Len(lang) > Len(code) + 1
  /\ SubSeq(lang, 1, Len(code) + 1) = code \o <<"-">>

\* C9: for every available-language list that contains only regional
\* variants of the preferred code and not the preferred code itself, the
\* match kind is 'family' and the confidence 0.8.
C9_RegionalVariantIsFamily ==
  (Matched /\ args.availableLanguages.present
     /\ Len(args.availableLanguages.items) > 0
     /\ \A k \in 1..Len(args.availableLanguages.items) :
          RegionalVariantOf(args.availableLanguages.items[k],
                            args.preferredLanguage)) =>
    /\ ret.matchType = "family"
    /\ ret.confidence = 80

\* C10: for an empty or absent available-language list the match kind is
\* 'none', the confidence 0, the alternatives empty and the selected code
\* the preferred code exactly as passed in.
C10_EmptyIsNone ==
  (Matched /\ (~args.availableLanguages.present
                 \/ args.availableLanguages.items = <<>>)) =>
    /\ ret.matchType = "none"
    /\ ret.confidence = 0
    /\ ret.availableAlternatives = <<>>
    /\ ret.selectedLanguage = args.preferredLanguage

\* C10 witness: an empty list and a preferred code that normalization
\* would change
C10_Witness ==
  /\ Matched
  /\ args.availableLanguages = Array(<<>>)
  /\ args.preferredLanguage = <<"e","n","-","G","B">>
  /\ ret.selectedLanguage = <<"e","n","-","G","B">>
  /\ ret.matchType = "none"

----------------------------------------------------------------------------
(* Properties of the subtitle encoding, checked under SpecSrt *)

Formatted == called = "_formatAsSrt"

TwoDigits(n) == <<DigitChars[((n \div 10) % 10) + 1], DigitChars[(n % 10) + 1]>>

ThreeDigits(n) == <<DigitChars[((n \div 100) % 10) + 1]>> \o TwoDigits(n)

\* HH:MM:SS,mmm for a time of less than 100 hours
ClockTime(milliseconds) ==
  TwoDigits(milliseconds \div 3600000) \o <<":">>
    \o TwoDigits((milliseconds \div 60000) % 60) \o <<":">>
    \o TwoDigits((milliseconds \div 1000) % 60) \o <<",">>
    \o ThreeDigits(milliseconds % 1000)

\* the block of the i-th segment, counting from 1
ExpectedBlock(segment, i) ==
  toString(i) \o <<"\n">>
    \o ClockTime(segment.start) \o <<" ","-","-",">"," ">>
    \o ClockTime(segment.start + segment.duration) \o <<"\n">>
    \o Text(segment.text) \o <<"\n">>

\* the blocks of all segments from the i-th on, one empty line between two
RECURSIVE ExpectedFrom(_, _)
ExpectedFrom(segments, i) ==
  IF i > Len(segments) THEN <<>>
  ELSE IF i = Len(segments) THEN ExpectedBlock(segments[i], i)
  ELSE ExpectedBlock(segments[i], i) \o <<"\n">> \o ExpectedFrom(segments, i + 1)

\* C11: the subtitle encoding renders the i-th segment (from 1) as the block
\* i, START --> END, text, with START the segment start and END start plus
\* duration, each written HH:MM:SS,mmm, blocks separated by one blank line;
\* start 0 ms and duration 1500 ms give 00:00:00,000 --> 00:00:01,500.
C11_SrtBlocks ==
  Formatted =>
    /\ ret.text = ExpectedFrom(args.segments, 1)
    /\ ret.length = Len(ret.text)
    /\ (args.segments # <<>> /\ args.segments[1].start = 0
          /\ args.segments[1].duration = 1500) =>
         SubSeq(ret.text, 3, 31) =
           <<"0","0",":","0","0",":","0","0",",","0","0","0",
             " ","-","-",">"," ",
             "0","0",":","0","0",":","0","1",",","5","0","0">>

\* C11 witness: two segments were encoded, the first starting at 0 ms and
\* lasting 1500 ms, the second starting after more than an hour
C11_Witness ==
  /\ Formatted
  /\ Len(args.segments) = 2
  /\ args.segments[1].start = 0
  /\ args.segments[1].duration = 1500
  /\ args.segments[2].start = 3661001
  /\ args.segments[2].duration = 1500
  /\ ret.length > 60

----------------------------------------------------------------------------
(* Properties of estimateExtractionTime, checked under SpecEstimate *)

Estimated == called = "estimateExtractionTime"

\* the clamp of a technique, in hundredths of a second
Clamp(method) ==
  CASE method = "youtube-transcript" -> 1000
    [] method = "youtube-caption-extractor" -> 1500
    [] method = "whisper-audio" -> 30000

\* same technique and same duration give the same estimate, and no estimate
\* exceeds the clamp of its technique
DeterministicAndClamped ==
  /\ (args.first = args.second) => ret.first = ret.second
  /\ (args.method # "bogus") =>
       (ret.first <= Clamp(args.method) /\ ret.second <= Clamp(args.method))

\* C12 as stated: for each technique the estimate is deterministic, is
\* non-decreasing in duration over all durations >= 0, duration 0 included,
\* and never exceeds the clamp.
C12_MonotoneFromZero_Original ==
  (Estimated /\ "duration" \in DOMAIN args.first
     /\ "duration" \in DOMAIN args.second) =>
    /\ DeterministicAndClamped
    /\ (args.first.duration <= args.second.duration) => ret.first <= ret.second

\* C12 amended: for each technique the estimate is deterministic, is
\* non-decreasing in duration over all durations >= 1, and never exceeds the
\* clamp; duration 0 gets the estimate of 300 seconds.
C12_MonotoneFromOne ==
  (Estimated /\ "duration" \in DOMAIN args.first
     /\ "duration" \in DOMAIN args.second) =>
    /\ DeterministicAndClamped
    /\ (1 <= args.first.duration /\ args.first.duration <= args.second.duration)
         => ret.first <= ret.second
    /\ (args.first.duration = 0 /\ args.second.duration = 300)
         => ret.first = ret.second

\* C12 witness: caption-primary below and above the duration where its
\* estimate reaches the clamp
C12_Witness ==
  /\ Estimated
  /\ args.method = "youtube-transcript"
  /\ "duration" \in DOMAIN args.first
  /\ "duration" \in DOMAIN args.second
  /\ args.first.duration = 499
  /\ args.second.duration = 501
  /\ ret.first = 998
  /\ ret.second = 1000

----------------------------------------------------------------------------
(* Properties of one extractTranscript call, checked under SpecBackend *)

Done == step = "done"

\* the first token of the message each kind of failure carries
FailureHeads(failure) ==
  CASE failure = "unconfigured" ->
         {"OpenAI API key not configured for audio transcription"}
    [] failure = "unsupported" -> {"Unsupported extraction method: "}
    [] failure = "download" -> {"No suitable audio format found"}
    [] failure = "size" -> {"Audio too small ("}
    [] failure = "transcription" -> {"Whisper API error: "}
    [] failure = "fetch" -> {"youtube-transcript: No transcript data available",
                             "youtube-caption-extractor: "}

\* C13: extractTranscript never throws: for every technique name and every
\* failure raised inside a backend it returns an outcome with success=false,
\* an empty transcript and the error message in its error field.
C13_FailuresBecomeOutcomes ==
  Done =>
    /\ "success" \in DOMAIN ret
    /\ ret.method = args.method
    /\ (locals.failure = "none") => ret.success
    /\ (locals.failure # "none") =>
         /\ ~ret.success
         /\ ret.transcript = 0
         /\ "error" \in DOMAIN ret
         /\ ret.error # <<>>
         /\ Head(ret.error) \in FailureHeads(locals.failure)

\* C13 witness: the audio download was rejected for its size and the call
\* returned a failed outcome
C13_Witness ==
  /\ Done
  /\ args.method = "whisper-audio"
  /\ locals.failure = "size"
  /\ ~ret.success
  /\ Head(ret.error) = "Audio too small ("

\* C16: the caption-secondary backend tries the primary language and then
\* each fallback language in order and accepts the first language that
\* returns a non-empty segment sequence; an empty sequence returned without
\* error does not stop the search, so the backend fails only when every
\* language of the list has been tried.
C16_EmptyDoesNotStopSearch ==
  (Done /\ args.method = "youtube-caption-extractor"
     /\ HasLanguageList(args.config)) =>
    /\ \A k \in 1..Len(trace) :
         trace[k].params.lang = CaptionExtractorLanguages(args.config)[k]
    /\ ~ret.success => Len(trace) = Len(CaptionExtractorLanguages(args.config))

\* the languages the caption-primary backend is to try: the primary
\* language, then the fallback list of the config
PrimaryThenFallbacks(cfg) ==
  <<cfg.language>>
    \o (IF "fallbackLanguages" \in DOMAIN cfg THEN cfg.fallbackLanguages ELSE <<>>)

\* C17: the fetch attempts of the caption-primary backend are exactly the
\* primary language and then each language of the fallback list in list
\* order, stopping at the first non-empty result; no other attempt (such as
\* one without a language) is made between them.
C17_OnlyListedLanguages ==
  (args.method = "youtube-transcript" /\ step \in {"fetch", "done"}) =>
    /\ Len(trace) <= Len(PrimaryThenFallbacks(args.config))
    /\ \A k \in 1..Len(trace) :
         /\ "lang" \in DOMAIN trace[k].params
         /\ trace[k].params.lang = PrimaryThenFallbacks(args.config)[k]

\* the positions of the trace where transcriptions.create is called
TranscriptionCalls ==
  { k \in 1..Len(trace) : trace[k].call = "transcriptions.create" }

\* C18: in the audio technique the transcription call is made only after
\* the download has completed and its size has been checked; a download of
\* fewer than 1,000,000 bytes fails the technique without a transcription
\* call, and an unconfigured transcription backend fails it before any
\* download starts.
C18_TranscriptionAfterCheckedDownload ==
  (args.method = "whisper-audio" /\ step # "start") =>
    /\ \A k \in TranscriptionCalls :
         /\ \E j \in 1..(k - 1) : trace[j].call = "downloadFromInfo"
         /\ locals.byteLength >= 1000000
         /\ "yt-audio-" \notin tmpDirs
    /\ (Done /\ locals.failure = "size") =>
         (TranscriptionCalls = {} /\ ~ret.success
            /\ locals.reply.byteLength < 1000000)
    /\ ~args.openai => (Done /\ trace = <<>> /\ ~ret.success)

\* C18 witness: a download of 999,999 bytes completed and the technique
\* failed with the two download calls as its whole trace
C18_Witness ==
  /\ Done
  /\ args.method = "whisper-audio"
  /\ locals.failure = "size"
  /\ locals.reply.byteLength = 999999
  /\ Len(trace) = 2
  /\ trace[2].call = "downloadFromInfo"

\* C19: the audio technique passes a language to the transcription backend
\* only if the match confidence exceeds 0.7; with a confidence of 0.7 or
\* lower the call carries no language.
C19_LanguageOnlyAboveThreshold ==
  (args.method = "whisper-audio" /\ "languageConfig" \in DOMAIN args.config) =>
    \A k \in TranscriptionCalls :
      ("language" \in DOMAIN trace[k].params) <=>
        (args.config.languageConfig.matchConfidence > 70)

\* C20: every temporary directory the audio technique created has been
\* removed by the time the technique returns, on every exit path.
C20_NoDirectoryLeftBehind ==
  /\ Done => tmpDirs = {}
  /\ Cardinality(tmpDirs) <= 1
  /\ (args.method # "whisper-audio") => tmpDirs = {}

\* C20 witness: both staging directories were created, the transcription
\* failed, and no directory is left
C20_Witness ==
  /\ Done
  /\ locals.dirsCreated = 2
  /\ locals.failure = "transcription"
  /\ tmpDirs = {}

----------------------------------------------------------------------------
(* Properties of the result and of the response, checked under Spec *)

\* C14: when all techniques fail the caller receives success=false, an
\* empty transcript and one aggregated error message; when a technique is
\* accepted the result has success=true, that technique's name and no
\* error; no result mixes the two.
C14_TranscriptOrAggregatedError ==
  Returned =>
    IF result.success
    THEN /\ outcomes # <<>>
         /\ Acceptable(outcomes[Len(outcomes)])
         /\ result.method = calls[Len(calls)]
         /\ result.transcript > 0
         /\ "error" \notin DOMAIN result
    ELSE /\ \A k \in 1..Len(outcomes) : ~Acceptable(outcomes[k])
         /\ result.transcript = 0
         /\ result.method = "none"
         /\ "error" \in DOMAIN result
         /\ Head(result.error) = "All extraction methods failed. Errors: "
         /\ SubSeq(result.error, 2, Len(result.error)) = JoinErrors(errors)

\* C14 witness: a technique was accepted after an earlier one had left an
\* entry in the error list, and the result carries no error
C14_Witness ==
  /\ Returned
  /\ result.success
  /\ errors # <<>>
  /\ "error" \notin DOMAIN result
  /\ result.method = "youtube-caption-extractor"

Responded == response # Pending

\* C15: when every technique fails, the error response carries the code
\* ALL_METHODS_FAILED with HTTP status 502, whichever techniques were in
\* the attempted list, whisper-audio included.
C15_AllFailedCode ==
  (Returned /\ Responded /\ ~result.success) =>
    /\ response.httpStatus = 502
    /\ response.response.code = "ALL_METHODS_FAILED"

\* the three-valued enumeration TRANSCRIPT_METHODS
KnownMethods == {"youtube-transcript", "youtube-caption-extractor", "whisper-audio"}

\* C21: a technique name outside the three-valued enumeration aborts the
\* request abnormally: it leaves no entry in the list of per-technique
\* failures and no technique is attempted after it.
C21_UnknownTechniqueAborts ==
  \A k \in 1..Len(calls) :
    (calls[k] \notin KnownMethods) =>
      /\ k = Len(calls)
      /\ Len(errors) < k

\* C22: every technique attempted during one request is invoked with the
\* config that getMethodConfig builds for that same technique.
C22_ConfigOfTheTechnique ==
  \A k \in 1..Len(calls) :
    config = getMethodConfig(calls[k], metadata, Preferences(query))

\* SUPPORTED_FORMATS
SupportedFormats == {"txt", "srt", "json"}

\* C23: on success the transcript of the final result is in the requested
\* encoding whichever technique was accepted, the audio technique included.
C23_RequestedEncoding ==
  (Returned /\ result.success /\ query.format \in SupportedFormats) =>
    result.encoding = query.format

\* the techniques that fetch published captions
CaptionMethods == {"youtube-transcript", "youtube-caption-extractor"}

\* length of the segment texts of an outcome joined by single spaces
JoinedSegmentText(outcome) ==
  JoinLength([i \in 1..Len(outcome.segments) |-> outcome.segments[i].text], 1)

\* C29: extractWithFallback never accepts a caption outcome whose segment
\* texts, joined by single spaces, have 50 characters or fewer, whatever the
\* requested encoding.
C29_AcceptedCaptionOver50 ==
  (Returned /\ result.success /\ calls # <<>>
     /\ calls[Len(calls)] \in CaptionMethods
     /\ "segments" \in DOMAIN result) =>
    JoinedSegmentText(result) > SufficiencyThreshold

\* C25: findBestLanguageMatch returns 'exact' only when the preferred code
\* is verbatim in the available list, and the selected language is then the
\* preferred code.
C25_ExactOnlyVerbatim ==
  (Matched /\ ret.matchType = "exact") =>
    /\ includes(args.availableLanguages.items, args.preferredLanguage)
    /\ ret.selectedLanguage = args.preferredLanguage

\* position in LANGUAGE_PRIORITY of the first code that is itself in list,
\* 0 when there is none
FirstPriorityPresent(list) ==
  FindIndex([i \in 1..Len(LANGUAGE_PRIORITY) |-> includes(list, LANGUAGE_PRIORITY[i])])

\* C26: the priority fallback selects the first language of the priority
\* list that is itself present in the available list, with confidence 0.6;
\* an available code that is not on the priority list is never selected by
\* the priority rule (only by first-available).
C26_PriorityFallbackSelectsListed ==
  (Matched /\ ret.matchType = "priority_fallback") =>
    /\ FirstPriorityPresent(args.availableLanguages.items) > 0
    /\ ret.selectedLanguage =
         LANGUAGE_PRIORITY[FirstPriorityPresent(args.availableLanguages.items)]
    /\ ret.confidence = 60

\* the parameters of the library call whose completion ended the backend
LastAttempt == trace[Len(trace)].params

\* C30: the language reported in an accepted caption outcome is the
\* language of the fetch attempt that produced the segments, for both
\* caption backends.
C30_ReportedLanguageIsAttemptLanguage ==
  (Done /\ args.method \in CaptionMethods /\ Acceptable(ret)
     /\ trace # <<>> /\ "lang" \in DOMAIN LastAttempt) =>
    ret.language = LastAttempt.lang

----------------------------------------------------------------------------
(* Properties of getLanguageVariants, checked under SpecVariants *)

Varied == called = "getLanguageVariants"

\* C27: getLanguageVariants returns, for a code of the table, that code's
\* variant list, which starts with the code itself, and for a code that is
\* not in the table the singleton of that code lower-cased and trimmed.
C27_VariantsOfCode ==
  Varied =>
    IF args.languageCode \in supportedLanguages
    THEN /\ ret = MappingOf(args.languageCode)
         /\ ret[1] = args.languageCode
    ELSE ret = <<trim(toLowerCase(args.languageCode))>>

----------------------------------------------------------------------------
(* Properties of the validation step, checked under Spec *)

\* the url values whose video id is not an id of exactly 11 characters
MalformedIdUrls == { OverlongIdUrl, ShortId, WatchUrl(ShortId) }

\* C24: a request with an unsupported format (outside txt, srt, json) or a
\* malformed video id is rejected immediately: no metadata is fetched and no
\* technique is attempted for it.
C24_RejectedImmediately ==
  (pc # "idle"
     /\ (query.format \notin SupportedFormats \/ query.url \in MalformedIdUrls)) =>
    /\ metadata = Pending
    /\ calls = <<>>

----------------------------------------------------------------------------
(* Properties of concurrent metadata fetches, checked under SpecClients *)

====
